---- MODULE Spec2Model ----
(***************************************************************************)
(* Model of the worker orchestration layer of zsplendor:                   *)
(*   - ArenaWorkerPool (the pool of arena workers) together with the       *)
(*     RUN_MATCHUP handler of the arena worker, and                        *)
(*   - AIWorkerProxy (the single-worker request/response proxy).           *)
(*   - ArenaController (tournament tasks and aggregation), and             *)
(*   - GameController (the AI turn loop on top of the proxy).              *)
(* The main thread is a single-threaded event loop: every handler is one   *)
(* atomic action.  Workers run in parallel and talk to the main thread     *)
(* through FIFO message channels; a worker "error" event is delivered      *)
(* outside the message channel.                                            *)
(***************************************************************************)
EXTENDS Integers, Sequences, FiniteSets, TLC

(***************************************************************************)
(* Bounds of the model.                                                    *)
(***************************************************************************)
MaxWorkers == 2
MaxTasks == 2
MaxGames == 1
MaxSubmissions == 2
MaxErrors == 2

MaxRequests == 3
MaxCrashes == 2
MaxTerminates == 1
MaxSets == 2
MaxMatches == 2
MaxBots == 3
MaxMatchups == 2
MaxLoops == 2
MaxMoves == 3
MaxStarts == 2

WorkerIdx == 0..(MaxWorkers - 1)

(* ArenaWorkerPool, its workers and the promise of runTasks; arenaWrapper   *)
(* is the variable of that name of each arena worker (null or an engine)   *)
(* and arena is the ArenaController that owns the pool.                    *)
VARIABLES pool, initState, inbox, wprog, outbox, alive, promise, hist
VARIABLES arenaWrapper, arena

(* AIWorkerProxy, its timers, its pending initializations and its worker. *)
VARIABLES proxy, timers, clock, initPending, listenerOn, fbInits, aiw, px

(* GameController: its engine, its modals and its running checkAITurn      *)
(* loops.                                                                  *)
VARIABLES gameController

poolVars == <<pool, initState, inbox, wprog, outbox, alive, promise, hist,
              arenaWrapper, arena, gameController>>

proxyVars == <<proxy, timers, clock, initPending, listenerOn, fbInits, aiw, px>>

vars == <<pool, initState, inbox, wprog, outbox, alive, promise, hist,
          arenaWrapper, arena, gameController,
          proxy, timers, clock, initPending, listenerOn, fbInits, aiw, px>>

(***************************************************************************)
(* Helpers on sequences and numbers.                                       *)
(***************************************************************************)
Range(s) == {s[i] : i \in 1..Len(s)}

Min(a, b) == IF a <= b THEN a ELSE b

(***************************************************************************)
(* A task of a submission.  matchupId and gamesPerMatchup are the fields   *)
(* the pool and the worker read; sub is a history tag (the number of the   *)
(* submission the task belongs to) that the code does not have: main.js    *)
(* builds the same matchupIds for every tournament.                        *)
(***************************************************************************)
Task(id, k, s) == [matchupId |-> id, gamesPerMatchup |-> k, sub |-> s]

Tasks(n, k, s) == [i \in 1..n |-> Task(i, k, s)]

TaskKey(t) == <<t.matchupId, t.sub>>

(***************************************************************************)
(* ArenaWorkerPool constructor.                                            *)
(***************************************************************************)
NewPool(w) ==
    [workerCount |-> w,
     workers |-> <<>>,
     availableWorkers |-> <<>>,
     busyWorkers |-> {},
     taskQueue |-> <<>>,
     results |-> <<>>,
     totalTasks |-> 0,
     completedTasks |-> 0,
     progressCallback |-> FALSE,
     resolveComplete |-> FALSE,
     totalGames |-> 0,
     completedGames |-> 0]

NoTask == [matchupId |-> 0, gamesPerMatchup |-> 0, sub |-> 0]

(* The calls of the progress callback during the current submission: their *)
(* number and the arguments of the last one.                               *)
NoProgress == [calls |-> 0, completed |-> 0, total |-> 0]

NewHist ==
    [sub |-> 0,
     submitted |-> {},
     ended |-> {},
     failures |-> 0,
     assigned |-> [w \in WorkerIdx |-> NoTask],
     errored |-> {},
     errorCount |-> 0,
     initError |-> <<>>,
     terminates |-> 0,
     abandoned |-> FALSE,
     progress |-> NoProgress,
     games |-> 0,
     received |-> <<>>,
     tasks |-> <<>>,
     dispatched |-> <<>>]

(***************************************************************************)
(* AIWorkerProxy constructor.  worker is 0 for null, else the number of    *)
(* the Worker object (1 for the first one created, 2 for the next ...).    *)
(* pendingRequests is the set of the map's keys; the timeout handle of an  *)
(* entry is the membership of its key in timers.                           *)
(***************************************************************************)
(* The defaults of the settings: the difficulty (MCTS iterations) of the   *)
(* proxy and of the worker, and the time limit of both (2.5 s, held here   *)
(* in ms).                                                                 *)
ProxyDefaultDifficulty == 5000000

WorkerDefaultDifficulty == 500000

DefaultTimeLimitMs == 2500

(* The values the setters are called with. *)
Difficulties == {1000, WorkerDefaultDifficulty}

TimeLimits == {1000, DefaultTimeLimitMs}

NewProxy(workersSupported) ==
    [worker |-> 0,
     isReady |-> FALSE,
     pendingRequests |-> {},
     requestIdCounter |-> 0,
     useWorker |-> workersSupported,
     difficulty |-> ProxyDefaultDifficulty,
     timeLimit |-> DefaultTimeLimitMs,
     debugMode |-> FALSE,
     fallbackWasm |-> FALSE]

(* The request id of counter value n: `ai_request_${n}`. *)
RequestId(n) == <<"ai_request_", n>>

RequestIds == {RequestId(n) : n \in 0..(MaxRequests - 1)}

NoSettings == [difficulty |-> 0, timeLimit |-> 0, debugMode |-> FALSE]

NoRequest ==
    [outcome |-> "none", calls |-> 0, epoch |-> 0, value |-> <<>>,
     want |-> NoSettings]

(* What the engine in the worker returns for the request with this id, and *)
(* the text of the error it throws for it.                                 *)
ActionFor(id) == <<"action", id>>

ErrorFor(id) == <<"error", id>>

(* No Worker object: this.worker is null or the worker was terminated. *)
NoWorker ==
    [init |-> "none", inbox |-> <<>>, outbox |-> <<>>,
     currentDifficulty |-> WorkerDefaultDifficulty,
     currentTimeLimit |-> DefaultTimeLimitMs,
     debugMode |-> FALSE]

(* The timers of the proxy: one per request (getAIAction) and one per    *)
(* init promise (initialize), the latter named by the number of the worker *)
(* it waits for.                                                           *)
InitTimer(n) == <<"init", n>>

TimerKeys == RequestIds \cup {InitTimer(n) : n \in 1..(MaxCrashes + 1)}

(* The delays of the two setTimeout calls, in ms. *)
RequestTimeoutMs == 30000

InitTimeoutMs == 10000

Delay(t) == IF t \in RequestIds THEN RequestTimeoutMs ELSE InitTimeoutMs

NewPx ==
    [gen |-> 0,
     crashes |-> 0,
     terminates |-> 0,
     calls |-> 0,
     initCalled |-> FALSE,
     lastCall |-> "none",
     issued |-> <<>>,
     clobbered |-> FALSE,
     req |-> [id \in RequestIds |-> NoRequest],
     fbPending |-> 0,
     fbHung |-> 0,
     inits |-> [n \in 1..(MaxCrashes + 1) |-> "none"],
     overlapped |-> FALSE,
     sets |-> 0,
     posted |-> <<>>,
     crashSets |-> 0]

ProxyInitWith(workersSupported) ==
    /\ proxy = NewProxy(workersSupported)
    /\ timers = {}
    /\ clock = [t \in TimerKeys |-> 0]
    /\ initPending = {}
    /\ listenerOn = FALSE
    /\ fbInits = 0
    /\ aiw = NoWorker
    /\ px = NewPx

(* ArenaController constructor.  bots is the number of configured bots     *)
(* (bot i is this.bots[i]); phase, gamesPerMatchup, tasks and              *)
(* matchupResults are the position and the locals of a call of             *)
(* runTournamentParallel; results is this.results (<<>> for null).         *)
NewArena ==
    [bots |-> 0,
     phase |-> "idle",
     gamesPerMatchup |-> 0,
     tasks |-> <<>>,
     matchupResults |-> <<>>,
     results |-> <<>>,
     stats |-> <<>>]

(***************************************************************************)
(* GameController constructor.  engine is the game engine behind           *)
(* WasmInterface (current is the player to move, version counts the        *)
(* changes of its state); setupModal and gameOverModal are the two modals' *)
(* visibility; loops holds the running calls of checkAITurn, each at its   *)
(* await: "delay" (delay(50) and requestAnimationFrame), "await" (the      *)
(* promise of getAIAction, with the request id) or "animate" (the          *)
(* animation of the action received).  rejected and version record that    *)
(* the loop's last request was rejected and the engine version then;       *)
(* reissued, that a loop has called getAIAction again after a rejection    *)
(* with the engine unchanged.                                              *)
(***************************************************************************)
NoEngine == [current |-> "none", over |-> FALSE, discard |-> FALSE, version |-> 0]

NewGame ==
    [started |-> FALSE,
     setupModal |-> FALSE,
     gameOverModal |-> FALSE,
     engine |-> NoEngine,
     loops |-> <<>>,
     starts |-> 0,
     reissued |-> FALSE]

PoolInitOf(workerCount, controller) ==
    /\ gameController = NewGame
    /\ pool = NewPool(workerCount)
    /\ initState = "running"
    /\ inbox = [w \in WorkerIdx |-> <<>>]
    /\ wprog = [w \in WorkerIdx |-> 0]
    /\ outbox = [w \in WorkerIdx |-> <<>>]
    /\ alive = [w \in WorkerIdx |-> TRUE]
    /\ promise = [state |-> "none", value |-> <<>>, failures |-> 0, resolveCalls |-> 0]
    /\ hist = NewHist
    /\ arenaWrapper = [w \in WorkerIdx |-> FALSE]
    /\ arena = controller

PoolInitWith(workerCount) == PoolInitOf(workerCount, NewArena)

Init == (\E n \in 1..MaxWorkers : PoolInitWith(n)) /\ ProxyInitWith(TRUE)

(***************************************************************************)
(* The state the pool's handlers read and write, as one record, so that a  *)
(* handler that calls processNextTask is one function of it:               *)
(*   p  the ArenaWorkerPool object,                                        *)
(*   ib the workers' queues of posted, not yet answered RUN_MATCHUP,       *)
(*   pr the promise runTasks returned,                                     *)
(*   h  the history variables.                                             *)
(***************************************************************************)
Machine(p, ib, pr, h) == [p |-> p, ib |-> ib, pr |-> pr, h |-> h]

(***************************************************************************)
(* resolve(this.results): a promise settles on the first call only; the    *)
(* calls are counted (capped at 2).  failures is the number of tasks of    *)
(* the submission counted as completed without an entry in results, at the *)
(* moment of the call.                                                     *)
(***************************************************************************)
ResolvePromise(pr, value, failures) ==
    [state |-> "resolved",
     value |-> IF pr.state = "pending" THEN value ELSE pr.value,
     failures |-> IF pr.state = "pending" THEN failures ELSE pr.failures,
     resolveCalls |-> Min(pr.resolveCalls + 1, 2)]

(***************************************************************************)
(* ArenaWorkerPool.processNextTask.                                        *)
(***************************************************************************)
(* A processNextTask that takes the newest task of the queue (pop) instead *)
(* of the oldest (shift).                                                  *)
ProcessNextTaskNewest(m) ==
    IF m.p.completedTasks >= m.p.totalTasks
    THEN IF m.p.resolveComplete
         THEN [m EXCEPT !.p.resolveComplete = FALSE,
                        !.pr = ResolvePromise(m.pr, m.p.results, m.h.failures)]
         ELSE m
    ELSE IF Len(m.p.taskQueue) > 0 /\ Len(m.p.availableWorkers) > 0
         THEN LET task == m.p.taskQueue[Len(m.p.taskQueue)]
                  workerIndex == Head(m.p.availableWorkers)
              IN [m EXCEPT !.p.taskQueue = SubSeq(m.p.taskQueue, 1, Len(m.p.taskQueue) - 1),
                           !.p.availableWorkers = Tail(m.p.availableWorkers),
                           !.p.busyWorkers = m.p.busyWorkers \cup {workerIndex},
                           !.ib[workerIndex] = Append(m.ib[workerIndex], task),
                           !.h.assigned[workerIndex] = task,
                           !.h.dispatched = Append(m.h.dispatched, task)]
         ELSE m

ProcessNextTask(m) ==
    IF m.p.completedTasks >= m.p.totalTasks
    THEN IF m.p.resolveComplete
         THEN [m EXCEPT !.p.resolveComplete = FALSE,
                        !.pr = ResolvePromise(m.pr, m.p.results, m.h.failures)]
         ELSE m
    ELSE IF Len(m.p.taskQueue) > 0 /\ Len(m.p.availableWorkers) > 0
         THEN LET task == Head(m.p.taskQueue)
                  workerIndex == Head(m.p.availableWorkers)
              IN [m EXCEPT !.p.taskQueue = Tail(m.p.taskQueue),
                           !.p.availableWorkers = Tail(m.p.availableWorkers),
                           !.p.busyWorkers = m.p.busyWorkers \cup {workerIndex},
                           !.ib[workerIndex] = Append(m.ib[workerIndex], task),
                           !.h.assigned[workerIndex] = task,
                           !.h.dispatched = Append(m.h.dispatched, task)]
         ELSE m

(***************************************************************************)
(* ArenaWorkerPool.handleWorkerMessage.                                    *)
(***************************************************************************)
(* this.progressCallback(completed, total, gameResult). *)
ProgressCallback(h, completed, total) ==
    [h EXCEPT !.progress = [calls |-> h.progress.calls + 1,
                            completed |-> completed,
                            total |-> total]]

(* A GAME_COMPLETE branch that reports the games of the worker's matchup   *)
(* instead of the games of the submission.                                 *)
GameCompletePerMatchup(m, workerIndex) ==
    LET p1 == [m.p EXCEPT !.completedGames = m.p.completedGames + 1]
    IN [m EXCEPT !.p = p1,
                 !.h = IF p1.progressCallback
                       THEN ProgressCallback(m.h, p1.completedGames,
                                m.h.assigned[workerIndex].gamesPerMatchup)
                       ELSE m.h]

(* The GAME_COMPLETE branch. *)
GameComplete(m, workerIndex) ==
    LET p1 == [m.p EXCEPT !.completedGames = m.p.completedGames + 1]
    IN [m EXCEPT !.p = p1,
                 !.h = IF p1.progressCallback
                       THEN ProgressCallback(m.h, p1.completedGames, p1.totalGames)
                       ELSE m.h]

MarkAvailable(p, workerIndex) ==
    [p EXCEPT !.busyWorkers = p.busyWorkers \ {workerIndex},
              !.availableWorkers = Append(p.availableWorkers, workerIndex)]

(* handleWorkerMessage whose MATCHUP_ERROR branch also pushes an entry to  *)
(* results.                                                                *)
HandleWorkerMessageRecordsError(m, workerIndex, msg) ==
    IF msg.type = "GAME_COMPLETE"
    THEN GameComplete(m, workerIndex)
    ELSE IF msg.type = "MATCHUP_COMPLETE"
    THEN ProcessNextTask(
           [m EXCEPT !.p = MarkAvailable(
                             [m.p EXCEPT !.results = Append(m.p.results,
                                              [matchupId |-> msg.matchupId, sub |-> msg.sub]),
                                         !.completedTasks = m.p.completedTasks + 1],
                             workerIndex),
                     !.h.ended = m.h.ended \cup {<<msg.matchupId, msg.sub>>}])
    ELSE IF msg.type = "MATCHUP_ERROR"
    THEN ProcessNextTask(
           [m EXCEPT !.p = MarkAvailable(
                             [m.p EXCEPT !.results = Append(m.p.results,
                                              [matchupId |-> msg.matchupId, sub |-> msg.sub]),
                                         !.completedTasks = m.p.completedTasks + 1],
                             workerIndex),
                     !.h.failures = m.h.failures + 1,
                     !.h.ended = m.h.ended \cup {<<msg.matchupId, msg.sub>>}])
    ELSE m

(* handleWorkerMessage whose MATCHUP_ERROR branch does not go on to the    *)
(* next task.                                                              *)
HandleWorkerMessageErrorStops(m, workerIndex, msg) ==
    IF msg.type = "GAME_COMPLETE"
    THEN GameComplete(m, workerIndex)
    ELSE IF msg.type = "MATCHUP_COMPLETE"
    THEN ProcessNextTask(
           [m EXCEPT !.p = MarkAvailable(
                             [m.p EXCEPT !.results = Append(m.p.results,
                                              [matchupId |-> msg.matchupId, sub |-> msg.sub]),
                                         !.completedTasks = m.p.completedTasks + 1],
                             workerIndex),
                     !.h.ended = m.h.ended \cup {<<msg.matchupId, msg.sub>>}])
    ELSE IF msg.type = "MATCHUP_ERROR"
    THEN [m EXCEPT !.p = MarkAvailable(
                             [m.p EXCEPT !.completedTasks = m.p.completedTasks + 1],
                             workerIndex),
                   !.h.failures = m.h.failures + 1,
                   !.h.ended = m.h.ended \cup {<<msg.matchupId, msg.sub>>}]
    ELSE m

HandleWorkerMessage(m, workerIndex, msg) ==
    IF msg.type = "GAME_COMPLETE"
    THEN GameComplete(m, workerIndex)
    ELSE IF msg.type = "MATCHUP_COMPLETE"
    THEN ProcessNextTask(
           [m EXCEPT !.p = MarkAvailable(
                             [m.p EXCEPT !.results = Append(m.p.results,
                                              [matchupId |-> msg.matchupId, sub |-> msg.sub]),
                                         !.completedTasks = m.p.completedTasks + 1],
                             workerIndex),
                     !.h.ended = m.h.ended \cup {<<msg.matchupId, msg.sub>>}])
    ELSE IF msg.type = "MATCHUP_ERROR"
    THEN ProcessNextTask(
           [m EXCEPT !.p = MarkAvailable(
                             [m.p EXCEPT !.completedTasks = m.p.completedTasks + 1],
                             workerIndex),
                     !.h.failures = m.h.failures + 1,
                     !.h.ended = m.h.ended \cup {<<msg.matchupId, msg.sub>>}])
    ELSE m

(***************************************************************************)
(* ArenaWorkerPool.handleWorkerError.                                      *)
(***************************************************************************)
HandleWorkerError(m, workerIndex) ==
    LET m1 == [m EXCEPT !.h.errored = m.h.errored \cup {workerIndex},
                        !.h.errorCount = m.h.errorCount + 1]
    IN IF workerIndex \in m.p.busyWorkers
       THEN ProcessNextTask(
              [m1 EXCEPT !.p = [MarkAvailable(m.p, workerIndex)
                                  EXCEPT !.completedTasks = m.p.completedTasks + 1],
                         !.h.failures = m.h.failures + 1,
                         !.h.ended = m.h.ended \cup {TaskKey(m.h.assigned[workerIndex])}])
       ELSE m1

(***************************************************************************)
(* ArenaWorkerPool.runTasks: the whole call, the loop of processNextTask   *)
(* included.                                                               *)
(***************************************************************************)
RECURSIVE SumGames(_)
SumGames(tasks) ==
    IF tasks = <<>> THEN 0
    ELSE Head(tasks).gamesPerMatchup + SumGames(Tail(tasks))

RECURSIVE Repeat(_, _)
Repeat(m, n) == IF n = 0 THEN m ELSE Repeat(ProcessNextTask(m), n - 1)

RunTasksOn(m, tasks) ==
    LET p1 == [m.p EXCEPT !.taskQueue = tasks,
                          !.totalTasks = Len(tasks),
                          !.completedTasks = 0,
                          !.results = <<>>,
                          !.progressCallback = TRUE,
                          !.totalGames = SumGames(tasks),
                          !.completedGames = 0,
                          !.resolveComplete = TRUE]
        pr1 == [state |-> "pending", value |-> <<>>, failures |-> 0, resolveCalls |-> 0]
        m1 == [m EXCEPT !.p = p1, !.pr = pr1, !.h.sub = m.h.sub + 1,
                        !.h.failures = 0,
                        !.h.progress = NoProgress,
                        !.h.tasks = tasks,
                        !.h.dispatched = <<>>,
                        !.h.submitted = m.h.submitted \cup {TaskKey(t) : t \in Range(tasks)}]
        initialBatch == Min(p1.workerCount, Len(p1.taskQueue))
    IN IF initialBatch = 0 /\ p1.totalTasks = 0
       THEN [m1 EXCEPT !.pr = ResolvePromise(pr1, p1.results, 0)]
       ELSE Repeat(m1, initialBatch)

(***************************************************************************)
(* Actions of the pool.                                                    *)
(***************************************************************************)
Current == Machine(pool, inbox, promise, hist)

Install(m) ==
    /\ pool' = m.p
    /\ inbox' = m.ib
    /\ promise' = m.pr
    /\ hist' = m.h

(* initialize(): worker number Len(workers) has created its engine and      *)
(* reports INIT_COMPLETE; the task handlers are attached and the worker     *)
(* becomes available.                                                       *)
InitWorkerComplete ==
    /\ initState = "running"
    /\ LET i == Len(pool.workers)
       IN /\ pool' = [pool EXCEPT !.workers = Append(pool.workers, i),
                                  !.availableWorkers = Append(pool.availableWorkers, i)]
          /\ initState' = IF i + 1 = pool.workerCount THEN "ready" ELSE "running"
          /\ arenaWrapper' = [arenaWrapper EXCEPT ![i] = TRUE]
    /\ UNCHANGED <<inbox, wprog, outbox, alive, promise, hist, arena, gameController>>
    /\ UNCHANGED proxyVars

(* initialize(): the worker being initialized reports INIT_ERROR, raises an *)
(* error event or times out; initialize() rejects and creates no more       *)
(* workers.                                                                 *)
InitFailures == {"INIT_ERROR", "error", "timeout"}

(* An initialize() that goes on to the end after a worker failed. *)
InitWorkerFailIgnored ==
    /\ initState = "running"
    /\ initState' = "ready"
    /\ \E cause \in InitFailures :
          hist' = [hist EXCEPT !.initError = <<Len(pool.workers), cause>>]
    /\ UNCHANGED <<pool, inbox, wprog, outbox, alive, promise>>
    /\ UNCHANGED <<arenaWrapper, arena, gameController>>
    /\ UNCHANGED proxyVars

InitWorkerFail ==
    /\ initState = "running"
    /\ initState' = "failed"
    /\ \E cause \in InitFailures :
          hist' = [hist EXCEPT !.initError = <<Len(pool.workers), cause>>]
    /\ UNCHANGED <<pool, inbox, wprog, outbox, alive, promise>>
    /\ UNCHANGED <<arenaWrapper, arena, gameController>>
    /\ UNCHANGED proxyVars

(* runTournamentParallel: the pool object exists, so initialize() is not   *)
(* called again; the run button is disabled while a tournament runs.  The  *)
(* submission has n tasks of k games each, n * k games in all.             *)
RunTasks ==
    /\ initState \in {"ready", "failed"}
    /\ promise.state # "pending"
    /\ hist.sub < MaxSubmissions
    /\ \E n \in 0..MaxTasks, k \in 1..MaxGames :
          Install([RunTasksOn(Current, Tasks(n, k, hist.sub + 1))
                      EXCEPT !.h.games = n * k])
    /\ UNCHANGED <<initState, wprog, outbox, alive>>
    /\ UNCHANGED <<arenaWrapper, arena, gameController>>
    /\ UNCHANGED proxyVars

(* A message of worker w reaches the main thread.                          *)
DeliverMessage(w) ==
    /\ outbox[w] # <<>>
    /\ Install(HandleWorkerMessage(Current, w, Head(outbox[w])))
    /\ outbox' = [outbox EXCEPT ![w] = Tail(outbox[w])]
    /\ UNCHANGED <<initState, wprog, alive>>
    /\ UNCHANGED <<arenaWrapper, arena, gameController>>
    /\ UNCHANGED proxyVars

(* An error event of worker w reaches the main thread (an uncaught         *)
(* exception in the worker's script); the worker goes on running.          *)
WorkerErrorEvent(w) ==
    /\ w + 1 <= Len(pool.workers)
    /\ alive[w]
    /\ hist.errorCount < MaxErrors
    /\ Install(HandleWorkerError(Current, w))
    /\ UNCHANGED <<initState, wprog, outbox, alive>>
    /\ UNCHANGED <<arenaWrapper, arena, gameController>>
    /\ UNCHANGED proxyVars

(* An error event of worker w reaches the main thread and the worker is    *)
(* dead from then on: it handles no further RUN_MATCHUP and posts no       *)
(* further message (those it posted before are still delivered).           *)
WorkerCrash(w) ==
    /\ w + 1 <= Len(pool.workers)
    /\ alive[w]
    /\ hist.errorCount < MaxErrors
    /\ Install(HandleWorkerError(Current, w))
    /\ alive' = [alive EXCEPT ![w] = FALSE]
    /\ UNCHANGED <<initState, wprog, outbox>>
    /\ UNCHANGED <<arenaWrapper, arena, gameController>>
    /\ UNCHANGED proxyVars

(***************************************************************************)
(* The arena worker's RUN_MATCHUP handler, on the oldest unanswered        *)
(* RUN_MATCHUP of worker w.                                                *)
(***************************************************************************)
Msg(type, task) == [type |-> type, matchupId |-> task.matchupId, sub |-> task.sub]

(* The engine: in a run of several matches of the pair (bot1, bot2) the    *)
(* match with index gameIndex is opened by bot1 when the index is even and *)
(* by bot2 when it is odd.                                                 *)
FirstMover(gameIndex) == IF gameIndex % 2 = 0 THEN "bot1" ELSE "bot2"

(* arenaWrapper.runSingleMatchup(bot1, bot2, bot1Index, bot2Index, games): *)
(* the results of the matches of one run.                                  *)
RunSingleMatchup(games) == [g \in 1..games |-> [first |-> FirstMover(g - 1)]]

(* The body of the loop over gameNum: startingPlayer is computed and not   *)
(* used; the engine runs one match (its match 0) and results[0] is the     *)
(* gameResult.                                                             *)
PlayGame(gameNum) ==
    LET startingPlayer == gameNum % 2
    IN RunSingleMatchup(1)[1]

GameMsg(task, gameNum) ==
    [type |-> "GAME_COMPLETE", matchupId |-> task.matchupId, sub |-> task.sub,
     gameNum |-> gameNum, gameResult |-> PlayGame(gameNum)]

WorkerGameComplete(w) ==
    /\ alive[w]
    /\ arenaWrapper[w]
    /\ inbox[w] # <<>>
    /\ wprog[w] < Head(inbox[w]).gamesPerMatchup
    /\ wprog' = [wprog EXCEPT ![w] = wprog[w] + 1]
    /\ outbox' = [outbox EXCEPT ![w] = Append(outbox[w], GameMsg(Head(inbox[w]), wprog[w]))]
    /\ UNCHANGED <<pool, initState, inbox, alive, promise, hist>>
    /\ UNCHANGED <<arenaWrapper, arena, gameController>>
    /\ UNCHANGED proxyVars

(* A loop that ends one match early. *)
WorkerMatchupCompleteEarly(w) ==
    /\ alive[w]
    /\ arenaWrapper[w]
    /\ inbox[w] # <<>>
    /\ wprog[w] + 1 >= Head(inbox[w]).gamesPerMatchup
    /\ wprog' = [wprog EXCEPT ![w] = 0]
    /\ outbox' = [outbox EXCEPT ![w] = Append(outbox[w], Msg("MATCHUP_COMPLETE", Head(inbox[w])))]
    /\ inbox' = [inbox EXCEPT ![w] = Tail(inbox[w])]
    /\ UNCHANGED <<pool, initState, alive, promise, hist>>
    /\ UNCHANGED <<arenaWrapper, arena, gameController>>
    /\ UNCHANGED proxyVars

WorkerMatchupComplete(w) ==
    /\ alive[w]
    /\ arenaWrapper[w]
    /\ inbox[w] # <<>>
    /\ wprog[w] = Head(inbox[w]).gamesPerMatchup
    /\ wprog' = [wprog EXCEPT ![w] = 0]
    /\ outbox' = [outbox EXCEPT ![w] = Append(outbox[w], Msg("MATCHUP_COMPLETE", Head(inbox[w])))]
    /\ inbox' = [inbox EXCEPT ![w] = Tail(inbox[w])]
    /\ UNCHANGED <<pool, initState, alive, promise, hist>>
    /\ UNCHANGED <<arenaWrapper, arena, gameController>>
    /\ UNCHANGED proxyVars

(* The engine call or JSON.parse throws in the loop. *)
WorkerMatchupError(w) ==
    /\ alive[w]
    /\ arenaWrapper[w]
    /\ inbox[w] # <<>>
    /\ wprog[w] < Head(inbox[w]).gamesPerMatchup
    /\ wprog' = [wprog EXCEPT ![w] = 0]
    /\ outbox' = [outbox EXCEPT ![w] = Append(outbox[w], Msg("MATCHUP_ERROR", Head(inbox[w])))]
    /\ inbox' = [inbox EXCEPT ![w] = Tail(inbox[w])]
    /\ UNCHANGED <<pool, initState, alive, promise, hist>>
    /\ UNCHANGED <<arenaWrapper, arena, gameController>>
    /\ UNCHANGED proxyVars

(* RUN_MATCHUP while arenaWrapper is null: 'Worker not initialized' is     *)
(* thrown and caught, and MATCHUP_ERROR is posted.                         *)
WorkerNotInitialized(w) ==
    /\ alive[w]
    /\ ~arenaWrapper[w]
    /\ inbox[w] # <<>>
    /\ outbox' = [outbox EXCEPT ![w] = Append(outbox[w], Msg("MATCHUP_ERROR", Head(inbox[w])))]
    /\ inbox' = [inbox EXCEPT ![w] = Tail(inbox[w])]
    /\ UNCHANGED <<pool, initState, wprog, alive, promise, hist>>
    /\ UNCHANGED <<arenaWrapper, arena, gameController>>
    /\ UNCHANGED proxyVars

WorkerStep(w) ==
    \/ WorkerGameComplete(w)
    \/ WorkerMatchupComplete(w)
    \/ WorkerMatchupError(w)

(***************************************************************************)
(* ArenaWorkerPool.terminate, called once initialize() has settled.        *)
(* Worker.terminate() stops the worker's script and discards the messages  *)
(* the worker has posted and the main thread has not yet handled, and a    *)
(* terminated worker raises no event afterwards.                           *)
(***************************************************************************)
Stopped(f, ws, empty) == [w \in WorkerIdx |-> IF w \in ws THEN empty ELSE f[w]]

(* A terminate() after which the messages the workers had already posted   *)
(* are still delivered.                                                    *)
PoolTerminateKeepsMessages ==
    /\ initState # "running"
    /\ hist.terminates < MaxTerminates
    /\ pool' = [pool EXCEPT !.workers = <<>>,
                            !.availableWorkers = <<>>,
                            !.busyWorkers = {}]
    /\ alive' = Stopped(alive, Range(pool.workers), FALSE)
    /\ inbox' = Stopped(inbox, Range(pool.workers), <<>>)
    /\ wprog' = Stopped(wprog, Range(pool.workers), 0)
    /\ hist' = [hist EXCEPT !.terminates = hist.terminates + 1,
                            !.abandoned = (promise.state = "pending")]
    /\ UNCHANGED <<initState, outbox, promise, arenaWrapper, arena, gameController>>
    /\ UNCHANGED proxyVars

PoolTerminate ==
    /\ initState # "running"
    /\ hist.terminates < MaxTerminates
    /\ pool' = [pool EXCEPT !.workers = <<>>,
                            !.availableWorkers = <<>>,
                            !.busyWorkers = {}]
    /\ alive' = Stopped(alive, Range(pool.workers), FALSE)
    /\ inbox' = Stopped(inbox, Range(pool.workers), <<>>)
    /\ wprog' = Stopped(wprog, Range(pool.workers), 0)
    /\ outbox' = Stopped(outbox, Range(pool.workers), <<>>)
    /\ hist' = [hist EXCEPT !.terminates = hist.terminates + 1,
                            !.abandoned = (promise.state = "pending")]
    /\ UNCHANGED <<initState, promise, arenaWrapper, arena, gameController>>
    /\ UNCHANGED proxyVars

Next ==
    \/ InitWorkerComplete
    \/ InitWorkerFail
    \/ RunTasks
    \/ \E w \in WorkerIdx : DeliverMessage(w)
    \/ \E w \in WorkerIdx : WorkerErrorEvent(w)
    \/ \E w \in WorkerIdx : WorkerCrash(w)
    \/ \E w \in WorkerIdx : WorkerGameComplete(w)
    \/ \E w \in WorkerIdx : WorkerMatchupComplete(w)
    \/ \E w \in WorkerIdx : WorkerMatchupError(w)

Spec == Init /\ [][Next]_vars

(***************************************************************************)
(* The pool with workers that answer every RUN_MATCHUP: no worker dies,    *)
(* every worker goes on with the RUN_MATCHUP it has, and every message it  *)
(* posts is delivered (the event loop).                                    *)
(***************************************************************************)
NextAnswering ==
    \/ InitWorkerComplete
    \/ InitWorkerFail
    \/ RunTasks
    \/ \E w \in WorkerIdx : DeliverMessage(w)
    \/ \E w \in WorkerIdx : WorkerErrorEvent(w)
    \/ \E w \in WorkerIdx : WorkerGameComplete(w)
    \/ \E w \in WorkerIdx : WorkerMatchupComplete(w)
    \/ \E w \in WorkerIdx : WorkerMatchupError(w)

AnsweringSpec ==
    /\ Init
    /\ [][NextAnswering]_vars
    /\ \A w \in WorkerIdx : WF_vars(WorkerStep(w))
    /\ \A w \in WorkerIdx : WF_vars(DeliverMessage(w))

(***************************************************************************)
(* The arena worker on its own: a worker that has been created and sent    *)
(* INIT, and is then sent RUN_MATCHUP messages in any order, also while    *)
(* the engine is still loading or after loading has failed.  Nothing takes *)
(* its messages away, so outbox is the list of everything it has posted.   *)
(***************************************************************************)
ArenaWorker == 0

InitReplies == {"INIT_COMPLETE", "INIT_ERROR"}

InitPending(w) == \A i \in 1..Len(outbox[w]) : outbox[w][i].type \notin InitReplies

(* The INIT handler ends: the engine is created and INIT_COMPLETE posted. *)
ArenaWorkerInitComplete(w) ==
    /\ alive[w]
    /\ InitPending(w)
    /\ arenaWrapper' = [arenaWrapper EXCEPT ![w] = TRUE]
    /\ outbox' = [outbox EXCEPT ![w] = Append(outbox[w], [type |-> "INIT_COMPLETE"])]
    /\ UNCHANGED <<pool, initState, inbox, wprog, alive, promise, hist, arena, gameController>>
    /\ UNCHANGED proxyVars

(* The INIT handler ends in its catch: INIT_ERROR is posted. *)
ArenaWorkerInitError(w) ==
    /\ alive[w]
    /\ InitPending(w)
    /\ outbox' = [outbox EXCEPT ![w] = Append(outbox[w], [type |-> "INIT_ERROR"])]
    /\ UNCHANGED <<pool, initState, inbox, wprog, alive, promise, hist>>
    /\ UNCHANGED <<arenaWrapper, arena, gameController>>
    /\ UNCHANGED proxyVars

(* worker.postMessage({type: 'RUN_MATCHUP', data: task}) by the owner of   *)
(* the worker.                                                             *)
ArenaWorkerReceive(w) ==
    /\ Len(hist.received) < MaxTasks
    /\ \E id \in 1..MaxTasks, k \in 0..MaxMatches :
          /\ inbox' = [inbox EXCEPT ![w] = Append(inbox[w], Task(id, k, 0))]
          /\ hist' = [hist EXCEPT !.received = Append(hist.received, Task(id, k, 0))]
    /\ UNCHANGED <<pool, initState, wprog, outbox, alive, promise>>
    /\ UNCHANGED <<arenaWrapper, arena, gameController>>
    /\ UNCHANGED proxyVars

ArenaWorkerNext ==
    \/ ArenaWorkerInitComplete(ArenaWorker)
    \/ ArenaWorkerInitError(ArenaWorker)
    \/ ArenaWorkerReceive(ArenaWorker)
    \/ WorkerGameComplete(ArenaWorker)
    \/ WorkerMatchupComplete(ArenaWorker)
    \/ WorkerMatchupError(ArenaWorker)
    \/ WorkerNotInitialized(ArenaWorker)

ArenaWorkerSpec == (PoolInitWith(1) /\ ProxyInitWith(TRUE)) /\ [][ArenaWorkerNext]_vars

(***************************************************************************)
(* ArenaController.runTournamentParallel: the tasks of a tournament.       *)
(***************************************************************************)
(* The decimal digits of n, as a template literal prints it. *)
DigitChar(d) == <<"0", "1", "2", "3", "4", "5", "6", "7", "8", "9">>[d + 1]

RECURSIVE Digits(_)
Digits(n) ==
    IF n < 10 THEN <<DigitChar(n)>>
    ELSE Append(Digits(n \div 10), DigitChar(n % 10))

(* `bot${i}_vs_bot${j}` *)
MatchupId(i, j) == <<"bot">> \o Digits(i) \o <<"_vs_bot">> \o Digits(j)

MatchupTask(i, j, gamesPerMatchup) ==
    [matchupId |-> MatchupId(i, j),
     bot1Index |-> i,
     bot2Index |-> j,
     gamesPerMatchup |-> gamesPerMatchup]

(* The inner loop, for (let j = ...; j < bots; j++), from j on. *)
RECURSIVE InnerLoop(_, _, _, _, _)
InnerLoop(tasks, i, j, bots, gamesPerMatchup) ==
    IF j < bots
    THEN InnerLoop(Append(tasks, MatchupTask(i, j, gamesPerMatchup)),
                   i, j + 1, bots, gamesPerMatchup)
    ELSE tasks

(* An outer loop whose inner loop starts at j = i. *)
RECURSIVE OuterLoopSelfPairs(_, _, _, _)
OuterLoopSelfPairs(tasks, i, bots, gamesPerMatchup) ==
    IF i < bots
    THEN OuterLoopSelfPairs(InnerLoop(tasks, i, i, bots, gamesPerMatchup),
                            i + 1, bots, gamesPerMatchup)
    ELSE tasks

(* The outer loop, for (let i = 0; i < bots; i++), from i on. *)
RECURSIVE OuterLoop(_, _, _, _)
OuterLoop(tasks, i, bots, gamesPerMatchup) ==
    IF i < bots
    THEN OuterLoop(InnerLoop(tasks, i, i + 1, bots, gamesPerMatchup),
                   i + 1, bots, gamesPerMatchup)
    ELSE tasks

(* Tasks that pair every bot with itself as well. *)
CreateTasksSelfPairs(bots, gamesPerMatchup) ==
    OuterLoopSelfPairs(<<>>, 0, bots, gamesPerMatchup)

CreateTasks(bots, gamesPerMatchup) == OuterLoop(<<>>, 0, bots, gamesPerMatchup)

(***************************************************************************)
(* ArenaController.aggregateResults.                                       *)
(***************************************************************************)
BotIdx(bots) == 0..(bots - 1)

EmptyResults(bots) ==
    [matches |-> <<>>,
     wins |-> [i \in BotIdx(bots) |-> 0],
     losses |-> [i \in BotIdx(bots) |-> 0],
     gamesPlayed |-> [i \in BotIdx(bots) |-> 0],
     totalPoints |-> [i \in BotIdx(bots) |-> 0],
     totalWinTurns |-> [i \in BotIdx(bots) |-> 0]]

(* The counting of one game: gamesPlayed of both bots. *)
CountPlayed(r, game) ==
    LET r1 == [r EXCEPT !.matches = Append(r.matches, game),
                        !.gamesPlayed[game.bot1Index] = r.gamesPlayed[game.bot1Index] + 1]
    IN [r1 EXCEPT !.gamesPlayed[game.bot2Index] = r1.gamesPlayed[game.bot2Index] + 1]

(* The counting of one game: the points of both bots. *)
CountPoints(r, game) ==
    LET r1 == [r EXCEPT !.totalPoints[game.bot1Index] =
                            r.totalPoints[game.bot1Index] + game.bot1Points]
    IN [r1 EXCEPT !.totalPoints[game.bot2Index] =
                            r1.totalPoints[game.bot2Index] + game.bot2Points]

(* A body that counts a win only for winner 0 or 1. *)
AggregateGameDrawsIgnored(r, game) ==
    LET r1 == CountPlayed(r, game)
        r2 == IF game.winner = 0
              THEN [r1 EXCEPT !.wins[game.bot1Index] = r1.wins[game.bot1Index] + 1,
                              !.losses[game.bot2Index] = r1.losses[game.bot2Index] + 1,
                              !.totalWinTurns[game.bot1Index] =
                                  r1.totalWinTurns[game.bot1Index] + game.turnCount]
              ELSE IF game.winner = 1
              THEN [r1 EXCEPT !.losses[game.bot1Index] = r1.losses[game.bot1Index] + 1,
                              !.wins[game.bot2Index] = r1.wins[game.bot2Index] + 1,
                              !.totalWinTurns[game.bot2Index] =
                                  r1.totalWinTurns[game.bot2Index] + game.turnCount]
              ELSE r1
    IN CountPoints(r2, game)

(* A body that stores the turns of the last win instead of adding them. *)
AggregateGameLastWinTurns(r, game) ==
    LET r1 == CountPlayed(r, game)
        r2 == IF game.winner = 0
              THEN [r1 EXCEPT !.wins[game.bot1Index] = r1.wins[game.bot1Index] + 1,
                              !.losses[game.bot2Index] = r1.losses[game.bot2Index] + 1,
                              !.totalWinTurns[game.bot1Index] = game.turnCount]
              ELSE [r1 EXCEPT !.losses[game.bot1Index] = r1.losses[game.bot1Index] + 1,
                              !.wins[game.bot2Index] = r1.wins[game.bot2Index] + 1,
                              !.totalWinTurns[game.bot2Index] = game.turnCount]
    IN CountPoints(r2, game)

(* A body that counts the game as played only for bot1. *)
AggregateGameOneSided(r, game) ==
    LET r1 == [r EXCEPT !.matches = Append(r.matches, game),
                        !.gamesPlayed[game.bot1Index] = r.gamesPlayed[game.bot1Index] + 1]
        r2 == IF game.winner = 0
              THEN [r1 EXCEPT !.wins[game.bot1Index] = r1.wins[game.bot1Index] + 1,
                              !.losses[game.bot2Index] = r1.losses[game.bot2Index] + 1,
                              !.totalWinTurns[game.bot1Index] =
                                  r1.totalWinTurns[game.bot1Index] + game.turnCount]
              ELSE [r1 EXCEPT !.losses[game.bot1Index] = r1.losses[game.bot1Index] + 1,
                              !.wins[game.bot2Index] = r1.wins[game.bot2Index] + 1,
                              !.totalWinTurns[game.bot2Index] =
                                  r1.totalWinTurns[game.bot2Index] + game.turnCount]
    IN CountPoints(r2, game)

(* The body of matchup.results.forEach(game => ...): winner 0 is a win of  *)
(* bot1, every other value a win of bot2.                                  *)
AggregateGame(r, game) ==
    LET r1 == CountPlayed(r, game)
        r2 == IF game.winner = 0
              THEN [r1 EXCEPT !.wins[game.bot1Index] = r1.wins[game.bot1Index] + 1,
                              !.losses[game.bot2Index] = r1.losses[game.bot2Index] + 1,
                              !.totalWinTurns[game.bot1Index] =
                                  r1.totalWinTurns[game.bot1Index] + game.turnCount]
              ELSE [r1 EXCEPT !.losses[game.bot1Index] = r1.losses[game.bot1Index] + 1,
                              !.wins[game.bot2Index] = r1.wins[game.bot2Index] + 1,
                              !.totalWinTurns[game.bot2Index] =
                                  r1.totalWinTurns[game.bot2Index] + game.turnCount]
    IN CountPoints(r2, game)

RECURSIVE AggregateGames(_, _)
AggregateGames(r, games) ==
    IF games = <<>> THEN r
    ELSE AggregateGames(AggregateGame(r, Head(games)), Tail(games))

RECURSIVE AggregateMatchups(_, _)
AggregateMatchups(r, matchupResults) ==
    IF matchupResults = <<>> THEN r
    ELSE AggregateMatchups(AggregateGames(r, Head(matchupResults).results),
                           Tail(matchupResults))

(* The turns of all games of bot i. *)
RECURSIVE TotalTurns(_, _)
TotalTurns(matches, i) ==
    IF matches = <<>> THEN 0
    ELSE (IF Head(matches).bot1Index = i THEN Head(matches).turnCount ELSE 0)
           + (IF Head(matches).bot2Index = i THEN Head(matches).turnCount ELSE 0)
           + TotalTurns(Tail(matches), i)

(* A quotient a / b of the averages, kept as the pair of its terms. *)
Ratio(a, b) == <<a, b>>

(* The averages: 0 where the divisor is 0. *)
Averages(r, bots) ==
    [avgPointsScored |-> [i \in BotIdx(bots) |->
                            IF r.gamesPlayed[i] > 0
                            THEN Ratio(r.totalPoints[i], r.gamesPlayed[i]) ELSE Ratio(0, 1)],
     avgGameLength |-> [i \in BotIdx(bots) |->
                            IF r.gamesPlayed[i] > 0
                            THEN Ratio(TotalTurns(r.matches, i), r.gamesPlayed[i])
                            ELSE Ratio(0, 1)],
     avgWinTurns |-> [i \in BotIdx(bots) |->
                            IF r.wins[i] > 0
                            THEN Ratio(r.totalWinTurns[i], r.wins[i]) ELSE Ratio(0, 1)]]

AggregateResults(bots, matchupResults) ==
    LET r == AggregateMatchups(EmptyResults(bots), matchupResults)
    IN [acc |-> r, avg |-> Averages(r, bots)]

(***************************************************************************)
(* calculateWinRates: the figures shown per bot.  A figure is a number     *)
(* with one decimal, kept as its count of tenths, or the text 'N/A'.       *)
(***************************************************************************)
Number(tenths) == [isNumber |-> TRUE, tenths |-> tenths]

NotAvailable == [isNumber |-> FALSE, tenths |-> 0]

(* (a / b).toFixed(1) in tenths, for a >= 0 and b > 0: the nearest tenth,   *)
(* the larger one on a tie.                                                *)
ToFixed1(a, b) == (20 * a + b) \div (2 * b)

WinRate(wins, losses) ==
    LET total == wins + losses
    IN  IF total > 0 THEN Number(ToFixed1(wins * 100, total)) ELSE Number(0)

CalculateWinRates(results, bots) ==
    [idx \in BotIdx(bots) |->
        [wins |-> results.acc.wins[idx],
         losses |-> results.acc.losses[idx],
         gamesPlayed |-> results.acc.gamesPlayed[idx],
         winRate |-> WinRate(results.acc.wins[idx], results.acc.losses[idx]),
         avgPoints |-> Number(ToFixed1(results.avg.avgPointsScored[idx][1],
                                       results.avg.avgPointsScored[idx][2])),
         avgGameLength |-> Number(ToFixed1(results.avg.avgGameLength[idx][1],
                                           results.avg.avgGameLength[idx][2])),
         avgWinTurns |-> IF results.avg.avgWinTurns[idx][1] > 0
                         THEN Number(ToFixed1(results.avg.avgWinTurns[idx][1],
                                              results.avg.avgWinTurns[idx][2]))
                         ELSE NotAvailable]]

(***************************************************************************)
(* A tournament of the controller: runTournamentParallel creates the       *)
(* tasks and awaits runTasks; every task succeeds, in any order (the pool  *)
(* pushes {matchupId, results} for every MATCHUP_COMPLETE, and results     *)
(* holds the gameResult of each of the task's matches); then the results   *)
(* are aggregated.                                                         *)
(***************************************************************************)
(* The winner of a match result: 0 for bot1, 1 for bot2, -1 for neither. *)
Winners == {0, 1, -1}

(* A match result of the engine for the pair of a task. *)
EngineGame(bot1Index, bot2Index, winner, turnCount) ==
    [bot1Index |-> bot1Index,
     bot2Index |-> bot2Index,
     winner |-> winner,
     turnCount |-> turnCount,
     bot1Points |-> IF winner = 0 THEN 15 ELSE 10 + turnCount,
     bot2Points |-> IF winner = 1 THEN 15 ELSE 10 + turnCount]

DoneIds(matchupResults) ==
    {matchupResults[i].matchupId : i \in 1..Len(matchupResults)}

ArenaRunTournament ==
    /\ arena.phase = "idle"
    /\ \E gamesPerMatchup \in 1..MaxMatches :
          arena' = [arena EXCEPT !.phase = "running",
                                 !.gamesPerMatchup = gamesPerMatchup,
                                 !.tasks = CreateTasks(arena.bots, gamesPerMatchup),
                                 !.matchupResults = <<>>]
    /\ UNCHANGED <<pool, initState, inbox, wprog, outbox, alive, promise, hist,
                   arenaWrapper, gameController>>
    /\ UNCHANGED proxyVars

ArenaMatchupComplete ==
    /\ arena.phase = "running"
    /\ \E t \in 1..Len(arena.tasks) :
          /\ arena.tasks[t].matchupId \notin DoneIds(arena.matchupResults)
          /\ \E winners \in [1..arena.tasks[t].gamesPerMatchup -> Winners] :
                arena' = [arena EXCEPT !.matchupResults =
                            Append(arena.matchupResults,
                                   [matchupId |-> arena.tasks[t].matchupId,
                                    results |-> [g \in 1..arena.tasks[t].gamesPerMatchup |->
                                                   EngineGame(arena.tasks[t].bot1Index,
                                                              arena.tasks[t].bot2Index,
                                                              winners[g], 20 + g)]])]
    /\ UNCHANGED <<pool, initState, inbox, wprog, outbox, alive, promise, hist,
                   arenaWrapper, gameController>>
    /\ UNCHANGED proxyVars

(* runTasks has resolved: this.results = this.aggregateResults(...). *)
ArenaAggregate ==
    /\ arena.phase = "running"
    /\ Len(arena.matchupResults) = Len(arena.tasks)
    /\ arena' = [arena EXCEPT !.phase = "done",
                              !.results = AggregateResults(arena.bots, arena.matchupResults)]
    /\ UNCHANGED <<pool, initState, inbox, wprog, outbox, alive, promise, hist,
                   arenaWrapper, gameController>>
    /\ UNCHANGED proxyVars

TournamentNext ==
    \/ ArenaRunTournament
    \/ ArenaMatchupComplete
    \/ ArenaAggregate

(* The controller with 2..MaxBots bots added. *)
ArenaInit ==
    /\ \E bots \in 2..MaxBots : PoolInitOf(1, [NewArena EXCEPT !.bots = bots])
    /\ ProxyInitWith(TRUE)

TournamentSpec == ArenaInit /\ [][TournamentNext]_vars

(***************************************************************************)
(* aggregateResults on any list of matchup results: matchups of one or two *)
(* match results of any pairs of bots, with any winner value.              *)
(***************************************************************************)
Games(bots) ==
    {g \in {EngineGame(i, j, winner, turnCount) :
              i \in BotIdx(bots), j \in BotIdx(bots),
              winner \in Winners, turnCount \in {20, 30}} :
        g.bot1Index < g.bot2Index}

GameLists(bots) ==
    {<<a>> : a \in Games(bots)} \cup {<<a, b>> : a, b \in Games(bots)}

AggregateReceive ==
    /\ arena.phase = "idle"
    /\ Len(arena.matchupResults) < MaxMatchups
    /\ \E games \in GameLists(arena.bots) :
          arena' = [arena EXCEPT !.matchupResults =
                      Append(arena.matchupResults,
                             [matchupId |-> MatchupId(games[1].bot1Index, games[1].bot2Index),
                              results |-> games])]
    /\ UNCHANGED <<pool, initState, inbox, wprog, outbox, alive, promise, hist,
                   arenaWrapper, gameController>>
    /\ UNCHANGED proxyVars

AggregateApply ==
    /\ arena.phase = "idle"
    /\ arena' = [arena EXCEPT !.phase = "done",
                              !.results = AggregateResults(arena.bots, arena.matchupResults)]
    /\ UNCHANGED <<pool, initState, inbox, wprog, outbox, alive, promise, hist,
                   arenaWrapper, gameController>>
    /\ UNCHANGED proxyVars

(* calculateWinRates(): null while there are no results. *)
ArenaCalculateWinRates ==
    /\ arena.results # <<>>
    /\ arena' = [arena EXCEPT !.stats = CalculateWinRates(arena.results, arena.bots)]
    /\ UNCHANGED <<pool, initState, inbox, wprog, outbox, alive, promise, hist,
                   arenaWrapper, gameController>>
    /\ UNCHANGED proxyVars

AggregateNext ==
    \/ AggregateReceive
    \/ AggregateApply
    \/ ArenaCalculateWinRates

AggregateSpec == ArenaInit /\ [][AggregateNext]_vars

(***************************************************************************)
(* The pool with a caller that may call terminate().                       *)
(***************************************************************************)
NextTerminate ==
    \/ InitWorkerComplete
    \/ InitWorkerFail
    \/ RunTasks
    \/ PoolTerminate
    \/ \E w \in WorkerIdx : DeliverMessage(w)
    \/ \E w \in WorkerIdx : WorkerErrorEvent(w)
    \/ \E w \in WorkerIdx : WorkerCrash(w)
    \/ \E w \in WorkerIdx : WorkerGameComplete(w)
    \/ \E w \in WorkerIdx : WorkerMatchupComplete(w)
    \/ \E w \in WorkerIdx : WorkerMatchupError(w)

TerminateSpec == Init /\ [][NextTerminate]_vars

(***************************************************************************)
(* Properties of ArenaWorkerPool.                                          *)
(***************************************************************************)
SubmittedKeys == {<<i, hist.sub>> : i \in 1..pool.totalTasks}

ResultIds(rs) == {rs[i].matchupId : i \in 1..Len(rs)}

C2_ResolvedOnlyWhenAllEnded ==
    (promise.state = "resolved" /\ pool.totalTasks > 0) =>
        /\ promise.resolveCalls <= 1
        /\ pool.taskQueue = <<>>
        /\ SubmittedKeys \subseteq hist.ended

(* C3: with at least one initialized worker and workers that answer every  *)
(* RUN_MATCHUP, every submitted task is eventually dispatched and ended    *)
(* and the runTasks promise eventually resolves, MATCHUP_ERROR answers     *)
(* included.                                                               *)
C3_AllTasksEventuallyEnd ==
    /\ (Len(pool.workers) >= 1) ~> (hist.submitted \subseteq hist.ended)
    /\ (promise.state = "pending" /\ Len(pool.workers) >= 1)
              ~> (promise.state = "resolved")

(* C3 witness: a submission of MaxTasks tasks on a one-worker pool has      *)
(* resolved although its first task was answered with MATCHUP_ERROR.       *)
C3_Witness ==
    /\ promise.state = "resolved"
    /\ pool.workerCount = 1
    /\ pool.totalTasks = MaxTasks
    /\ hist.errorCount = 0
    /\ SubmittedKeys \subseteq hist.ended
    /\ 1 \notin ResultIds(promise.value)
    /\ MaxTasks \in ResultIds(promise.value)

(* C4: while T > 0 tasks are submitted to a pool of size W, the number of  *)
(* busy workers is at most min(W, T).                                      *)
C4_BusyAtMostMin ==
    pool.totalTasks > 0 =>
        Cardinality(pool.busyWorkers) <= Min(pool.workerCount, pool.totalTasks)

(* C5: no worker holds more than one RUN_MATCHUP it has not answered.      *)
C5_OneInFlightPerWorker ==
    \A w \in WorkerIdx : Len(inbox[w]) <= 1

(* C6: a worker that raised an error event is not in availableWorkers      *)
(* afterwards.                                                             *)
C6_ErroredNeverAvailable ==
    \A w \in hist.errored : w \notin Range(pool.availableWorkers)

(* C7: the pool does not hang: once every worker of a fully initialized    *)
(* pool is dead and every message they posted has been handled, the        *)
(* runTasks promise is not left pending.                                   *)
C7_NoHangWhenAllCrashed ==
    (/\ initState = "ready"
     /\ \A w \in Range(pool.workers) : ~alive[w] /\ outbox[w] = <<>>)
        => promise.state # "pending"

(***************************************************************************)
(* AIWorkerProxy.  The state its handlers read and write, as one record,   *)
(* so that handleError -> restart -> terminate -> initialize is one        *)
(* function of it.                                                         *)
(***************************************************************************)
ProxyCurrent ==
    [proxy |-> proxy, timers |-> timers, clock |-> clock,
     initPending |-> initPending,
     listenerOn |-> listenerOn, fbInits |-> fbInits, aiw |-> aiw, px |-> px]

ProxyInstall(x) ==
    /\ proxy' = x.proxy
    /\ timers' = x.timers
    /\ clock' = x.clock
    /\ initPending' = x.initPending
    /\ listenerOn' = x.listenerOn
    /\ fbInits' = x.fbInits
    /\ aiw' = x.aiw
    /\ px' = x.px

(* clearTimeout, or a timer that has fired: the timers in keys no longer   *)
(* run.                                                                    *)
Unset(c, keys) == [t \in TimerKeys |-> IF t \in keys THEN 0 ELSE c[t]]

(* resolve or reject of the promise of request id: the promise settles on  *)
(* the first call; the calls are counted (capped at 2).                    *)
Settle(h, id, kind) ==
    [h EXCEPT !.req[id] = [outcome |-> IF h.req[id].calls = 0 THEN kind
                                        ELSE h.req[id].outcome,
                           calls |-> Min(h.req[id].calls + 1, 2),
                           epoch |-> h.req[id].epoch,
                           value |-> h.req[id].value,
                           want |-> h.req[id].want]]

(* resolve(value) or reject(value). *)
SettleWith(h, id, kind, value) ==
    [Settle(h, id, kind) EXCEPT
        !.req[id].value = IF h.req[id].calls = 0 THEN value ELSE h.req[id].value]

RECURSIVE SettleAll(_, _, _)
SettleAll(h, ids, kind) ==
    IF ids = {} THEN h
    ELSE LET id == CHOOSE i \in ids : TRUE
         IN SettleAll(Settle(h, id, kind), ids \ {id}, kind)

(***************************************************************************)
(* AIWorkerProxy.initializeFallback: it throws at once (Module undefined)  *)
(* or waits for Module(); which of the two, and the end of the wait, is    *)
(* the step FallbackInitDone or FallbackInitFail.                          *)
(***************************************************************************)
InitializeFallback(x) == [x EXCEPT !.fbInits = x.fbInits + 1]

(* AIWorkerProxy.initialize up to its await: a new Worker with the message *)
(* and error handlers, the init promise with its 10000 ms timer and its    *)
(* once-listener, and the INIT message.                                    *)
Initialize(x) ==
    IF ~x.proxy.useWorker
    THEN InitializeFallback(x)
    ELSE LET n == x.px.gen + 1
         IN [x EXCEPT !.proxy.worker = n,
                      !.px.gen = n,
                      !.px.inits[n] = "waiting",
                      !.initPending = x.initPending \cup {n},
                      !.listenerOn = TRUE,
                      !.aiw = [NoWorker EXCEPT !.init = "loading"]]

(* A catch block that gives up without initializing the fallback. *)
InitializeCatchGivesUp(x) == [x EXCEPT !.proxy.useWorker = FALSE]

(* The catch block of initialize: the init promise was rejected. *)
InitializeCatch(x) ==
    InitializeFallback([x EXCEPT !.proxy.useWorker = FALSE])

(* AIWorkerProxy.terminate. *)
Terminate(x) ==
    [x EXCEPT !.proxy.worker = 0,
              !.aiw = IF x.proxy.worker # 0 THEN NoWorker ELSE x.aiw,
              !.listenerOn = IF x.proxy.worker # 0 THEN FALSE ELSE x.listenerOn,
              !.proxy.isReady = FALSE,
              !.proxy.pendingRequests = {}]

(* restart that also starts the request ids again from 0. *)
RestartResetsCounter(x) ==
    Initialize([Terminate(x) EXCEPT !.proxy.isReady = FALSE,
                                    !.proxy.requestIdCounter = 0])

(* AIWorkerProxy.restart up to the await in initialize. *)
Restart(x) ==
    Initialize([Terminate(x) EXCEPT !.proxy.isReady = FALSE])

(* handleError that restarts without rejecting the pending requests. *)
HandleErrorNoReject(x) ==
    Restart([x EXCEPT !.px.crashes = x.px.crashes + 1,
                      !.px.crashSets = x.px.sets])

(* AIWorkerProxy.handleError. *)
HandleError(x) ==
    LET ids == x.proxy.pendingRequests
    IN Restart([x EXCEPT !.timers = x.timers \ ids,
                         !.clock = Unset(x.clock, ids),
                         !.px = [SettleAll(x.px, ids, "crashed")
                                   EXCEPT !.crashes = x.px.crashes + 1,
                                          !.crashSets = x.px.sets],
                         !.proxy.pendingRequests = {}])

(* A getAIAction that goes on posting to the worker after the proxy has    *)
(* given up the worker path.                                               *)
GetAIActionIgnoresUseWorker(x) ==
    LET x0 == [x EXCEPT !.px.calls = x.px.calls + 1]
    IN IF ~x.proxy.isReady
       THEN [x0 EXCEPT !.px.lastCall = "refused"]
       ELSE LET requestId == RequestId(x.proxy.requestIdCounter)
            IN [x0 EXCEPT
                  !.proxy.requestIdCounter = x.proxy.requestIdCounter + 1,
                  !.timers = x.timers \cup {requestId},
                  !.proxy.pendingRequests = x.proxy.pendingRequests \cup {requestId},
                  !.aiw.inbox = IF x.proxy.worker # 0
                                THEN Append(x.aiw.inbox,
                                       [type |-> "COMPUTE_AI_ACTION",
                                        id |-> requestId,
                                        difficulty |-> x.proxy.difficulty,
                                        timeLimit |-> x.proxy.timeLimit])
                                ELSE x.aiw.inbox,
                  !.px.lastCall = "worker",
                  !.px.issued = Append(x.px.issued, requestId),
                  !.px.clobbered = x.px.clobbered
                                     \/ requestId \in x.proxy.pendingRequests,
                  !.px.req[requestId] = [outcome |-> "pending", calls |-> 0,
                                         epoch |-> x.px.crashes,
                                         value |-> <<>>,
                                         want |-> [difficulty |-> x.proxy.difficulty,
                                                   timeLimit |-> x.proxy.timeLimit,
                                                   debugMode |-> x.proxy.debugMode]]]

(* AIWorkerProxy.getAIAction. *)
GetAIAction(x) ==
    LET x0 == [x EXCEPT !.px.calls = x.px.calls + 1]
    IN IF ~x.proxy.isReady
       THEN [x0 EXCEPT !.px.lastCall = "refused"]
       ELSE IF ~x.proxy.useWorker
       THEN [x0 EXCEPT !.px.lastCall = "fallback",
                       !.px.fbPending = x.px.fbPending + 1]
       ELSE LET requestId == RequestId(x.proxy.requestIdCounter)
            IN [x0 EXCEPT
                  !.proxy.requestIdCounter = x.proxy.requestIdCounter + 1,
                  !.timers = x.timers \cup {requestId},
                  !.proxy.pendingRequests = x.proxy.pendingRequests \cup {requestId},
                  !.aiw.inbox = IF x.proxy.worker # 0
                                THEN Append(x.aiw.inbox,
                                       [type |-> "COMPUTE_AI_ACTION",
                                        id |-> requestId,
                                        difficulty |-> x.proxy.difficulty,
                                        timeLimit |-> x.proxy.timeLimit])
                                ELSE x.aiw.inbox,
                  !.px.lastCall = "worker",
                  !.px.issued = Append(x.px.issued, requestId),
                  !.px.clobbered = x.px.clobbered
                                     \/ requestId \in x.proxy.pendingRequests,
                  !.px.req[requestId] = [outcome |-> "pending", calls |-> 0,
                                         epoch |-> x.px.crashes,
                                         value |-> <<>>,
                                         want |-> [difficulty |-> x.proxy.difficulty,
                                                   timeLimit |-> x.proxy.timeLimit,
                                                   debugMode |-> x.proxy.debugMode]]]

(* The three setters: each stores the value and, on the worker path with   *)
(* a worker, posts it; none waits for a reply.                             *)
PostSetting(x, type, value) ==
    IF x.proxy.useWorker /\ x.proxy.worker # 0
    THEN [x EXCEPT !.aiw.inbox = Append(x.aiw.inbox, [type |-> type, value |-> value])]
    ELSE x

SetDifficulty(x, difficulty) ==
    PostSetting([x EXCEPT !.proxy.difficulty = difficulty], "SET_DIFFICULTY", difficulty)

SetTimeLimit(x, timeLimit) ==
    PostSetting([x EXCEPT !.proxy.timeLimit = timeLimit], "SET_TIME_LIMIT", timeLimit)

SetDebugMode(x, enabled) ==
    PostSetting([x EXCEPT !.proxy.debugMode = enabled], "SET_DEBUG_MODE", enabled)

(* handleActionResult that resolves without finding the entry. *)
HandleActionResultNoLookup(x, message) ==
    [x EXCEPT !.timers = x.timers \ {message.id},
              !.clock = Unset(x.clock, {message.id}),
              !.proxy.pendingRequests = x.proxy.pendingRequests \ {message.id},
              !.px = SettleWith(x.px, message.id, "resolved", message.payload)]

(* handleActionResult that resolves the newest pending request, whatever   *)
(* the id of the reply.                                                    *)
HandleActionResultNewest(x, message) ==
    IF message.id \in x.proxy.pendingRequests
    THEN LET id == CHOOSE i \in x.proxy.pendingRequests :
                      \A j \in x.proxy.pendingRequests : i[2] >= j[2]
         IN [x EXCEPT !.timers = x.timers \ {id},
                      !.clock = Unset(x.clock, {id}),
                      !.proxy.pendingRequests = x.proxy.pendingRequests \ {id},
                      !.px = SettleWith(x.px, id, "resolved", message.payload)]
    ELSE x

(* AIWorkerProxy.handleActionResult. *)
HandleActionResult(x, message) ==
    IF message.id \in x.proxy.pendingRequests
    THEN [x EXCEPT !.timers = x.timers \ {message.id},
                   !.clock = Unset(x.clock, {message.id}),
                   !.proxy.pendingRequests = x.proxy.pendingRequests \ {message.id},
                   !.px = [SettleWith(x.px, message.id, "resolved", message.payload)
                            EXCEPT !.overlapped = x.px.overlapped
                                      \/ x.proxy.pendingRequests # {message.id}]]
    ELSE x

(* AIWorkerProxy.handleActionError. *)
HandleActionError(x, message) ==
    IF message.id \in x.proxy.pendingRequests
    THEN [x EXCEPT !.timers = x.timers \ {message.id},
                   !.clock = Unset(x.clock, {message.id}),
                   !.proxy.pendingRequests = x.proxy.pendingRequests \ {message.id},
                   !.px = [SettleWith(x.px, message.id, "error", message.payload)
                            EXCEPT !.overlapped = x.px.overlapped
                                      \/ x.proxy.pendingRequests # {message.id}]]
    ELSE x

(* AIWorkerProxy.handleMessage. *)
HandleMessage(x, message) ==
    IF message.type = "AI_ACTION_RESULT" THEN HandleActionResult(x, message)
    ELSE IF message.type = "AI_ERROR" THEN HandleActionError(x, message)
    ELSE x

(* The once-listener of initialize on the current worker. *)
InitHandler(x, message) ==
    LET n == x.proxy.worker
        x1 == [x EXCEPT !.listenerOn = FALSE]
    IN IF message.type = "READY"
       THEN [x1 EXCEPT !.initPending = x.initPending \ {n},
                       !.clock = Unset(x.clock, {InitTimer(n)}),
                       !.px.inits[n] = IF n \in x.initPending THEN "returned"
                                       ELSE x.px.inits[n],
                       !.proxy.isReady = TRUE]
       ELSE IF message.type = "ERROR"
       THEN IF n \in x.initPending
            THEN InitializeCatch([x1 EXCEPT !.initPending = x.initPending \ {n},
                                            !.clock = Unset(x.clock, {InitTimer(n)}),
                                            !.px.inits[n] = "fallbackAfterError"])
            ELSE x1
       ELSE x1

(* A timeout callback that rejects and leaves the entry in the map. *)
RequestTimeoutKeepsEntry(x, requestId) ==
    [x EXCEPT !.timers = x.timers \ {requestId},
              !.clock = Unset(x.clock, {requestId}),
              !.px = Settle(x.px, requestId, "timeout")]

(* The timeout callback of a request in getAIAction. *)
RequestTimeout(x, requestId) ==
    [x EXCEPT !.timers = x.timers \ {requestId},
              !.clock = Unset(x.clock, {requestId}),
              !.proxy.pendingRequests = x.proxy.pendingRequests \ {requestId},
              !.px = Settle(x.px, requestId, "timeout")]

(***************************************************************************)
(* Actions of the proxy: calls of its public operations, events of the     *)
(* main thread's event loop, and steps of the AI worker.                   *)
(***************************************************************************)
ProxyInitialize ==
    /\ ~px.initCalled
    /\ ProxyInstall([Initialize(ProxyCurrent) EXCEPT !.px.initCalled = TRUE])
    /\ UNCHANGED poolVars

ProxyGetAIAction ==
    /\ px.calls < MaxRequests
    /\ ProxyInstall(GetAIAction(ProxyCurrent))
    /\ UNCHANGED poolVars

ProxyTerminate ==
    /\ px.initCalled
    /\ px.terminates < MaxTerminates
    /\ ProxyInstall([Terminate(ProxyCurrent) EXCEPT !.px.terminates = px.terminates + 1])
    /\ UNCHANGED poolVars

ProxySetDifficulty ==
    /\ px.sets < MaxSets
    /\ \E difficulty \in Difficulties :
          ProxyInstall([SetDifficulty(ProxyCurrent, difficulty)
                          EXCEPT !.px.sets = px.sets + 1])
    /\ UNCHANGED poolVars

ProxySetTimeLimit ==
    /\ px.sets < MaxSets
    /\ \E timeLimit \in TimeLimits :
          ProxyInstall([SetTimeLimit(ProxyCurrent, timeLimit)
                          EXCEPT !.px.sets = px.sets + 1])
    /\ UNCHANGED poolVars

ProxySetDebugMode ==
    /\ px.sets < MaxSets
    /\ \E enabled \in BOOLEAN :
          ProxyInstall([SetDebugMode(ProxyCurrent, enabled)
                          EXCEPT !.px.sets = px.sets + 1])
    /\ UNCHANGED poolVars

(* worker.onerror: an error event of the current worker. *)
ProxyWorkerError ==
    /\ proxy.worker # 0
    /\ px.crashes < MaxCrashes
    /\ ProxyInstall(HandleError(ProxyCurrent))
    /\ UNCHANGED poolVars

(* A message of the current worker reaches the main thread: onmessage      *)
(* (handleMessage) first, then the once-listener of initialize if it is    *)
(* still attached.                                                         *)
ProxyDeliver ==
    /\ proxy.worker # 0
    /\ aiw.outbox # <<>>
    /\ LET message == Head(aiw.outbox)
           x1 == HandleMessage([ProxyCurrent EXCEPT !.aiw.outbox = Tail(aiw.outbox)],
                               message)
       IN ProxyInstall(IF listenerOn THEN InitHandler(x1, message) ELSE x1)
    /\ UNCHANGED poolVars

(* The 10000 ms timer of the init promise of worker n fires. *)
ProxyInitTimeout(n) ==
    /\ n \in initPending
    /\ clock[InitTimer(n)] >= InitTimeoutMs
    /\ ProxyInstall(InitializeCatch([ProxyCurrent EXCEPT
                                       !.initPending = initPending \ {n},
                                       !.clock = Unset(clock, {InitTimer(n)}),
                                       !.px.inits[n] = "fallbackAfterTimeout"]))
    /\ UNCHANGED poolVars

(* A request timer whose callback runs before its delay has passed. *)
ProxyRequestTimeoutEarly(requestId) ==
    /\ requestId \in timers
    /\ ProxyInstall(RequestTimeout(ProxyCurrent, requestId))
    /\ UNCHANGED poolVars

(* The 30000 ms timer of a request fires. *)
ProxyRequestTimeout(requestId) ==
    /\ requestId \in timers
    /\ clock[requestId] >= RequestTimeoutMs
    /\ ProxyInstall(RequestTimeout(ProxyCurrent, requestId))
    /\ UNCHANGED poolVars

(* Time passes: InitTimeoutMs more ms have gone by since every running     *)
(* timer was set (setTimeout runs a callback no earlier than its delay).   *)
Running == timers \cup {InitTimer(n) : n \in initPending}

Tick ==
    /\ \E t \in Running : clock[t] < Delay(t)
    /\ clock' = [t \in TimerKeys |->
                   IF t \in Running
                   THEN Min(clock[t] + InitTimeoutMs, Delay(t))
                   ELSE clock[t]]
    /\ UNCHANGED <<proxy, timers, initPending, listenerOn, fbInits, aiw, px>>
    /\ UNCHANGED poolVars

(* initializeFallback ends: Module() resolved. *)
FallbackInitDone ==
    /\ fbInits > 0
    /\ fbInits' = fbInits - 1
    /\ proxy' = [proxy EXCEPT !.fallbackWasm = TRUE, !.isReady = TRUE]
    /\ UNCHANGED <<timers, clock, initPending, listenerOn, aiw, px>>
    /\ UNCHANGED poolVars

(* initializeFallback ends: Module is undefined or Module() rejected. *)
FallbackInitFail ==
    /\ fbInits > 0
    /\ fbInits' = fbInits - 1
    /\ UNCHANGED <<proxy, timers, clock, initPending, listenerOn, aiw, px>>
    /\ UNCHANGED poolVars

(* getAIActionFallback: the 10 ms callback computes and resolves.  It can  *)
(* do so only with the engine initializeFallback has stored.               *)
FallbackCompute ==
    /\ px.fbPending > 0
    /\ proxy.fallbackWasm
    /\ px' = [px EXCEPT !.fbPending = px.fbPending - 1]
    /\ UNCHANGED <<proxy, timers, clock, initPending, listenerOn, fbInits, aiw>>
    /\ UNCHANGED poolVars

(* getAIActionFallback: the engine call or JSON.parse throws inside the    *)
(* 10 ms callback; the promise is never settled.                           *)
FallbackComputeThrows ==
    /\ px.fbPending > 0
    /\ px' = [px EXCEPT !.fbPending = px.fbPending - 1, !.fbHung = px.fbHung + 1]
    /\ UNCHANGED <<proxy, timers, clock, initPending, listenerOn, fbInits, aiw>>
    /\ UNCHANGED poolVars

(***************************************************************************)
(* The AI worker (ai_worker.js).                                           *)
(***************************************************************************)
AIWorkerInitReady ==
    /\ aiw.init = "loading"
    /\ aiw' = [aiw EXCEPT !.init = "ready",
                          !.outbox = Append(aiw.outbox, [type |-> "READY", id |-> <<>>, payload |-> <<>>])]
    /\ UNCHANGED <<proxy, timers, clock, initPending, listenerOn, fbInits, px>>
    /\ UNCHANGED poolVars

AIWorkerInitError ==
    /\ aiw.init = "loading"
    /\ aiw' = [aiw EXCEPT !.init = "failed",
                          !.outbox = Append(aiw.outbox, [type |-> "ERROR", id |-> <<>>, payload |-> <<>>])]
    /\ UNCHANGED <<proxy, timers, clock, initPending, listenerOn, fbInits, px>>
    /\ UNCHANGED poolVars

(* handleComputeAction, its first part: the difficulty and the time limit  *)
(* of the message replace the worker's when they are set and differ.       *)
SyncSettings(a, message) ==
    [a EXCEPT !.currentDifficulty =
                  IF message.difficulty # 0 /\ message.difficulty # a.currentDifficulty
                  THEN message.difficulty ELSE a.currentDifficulty,
              !.currentTimeLimit =
                  IF message.timeLimit # 0 /\ message.timeLimit # a.currentTimeLimit
                  THEN message.timeLimit ELSE a.currentTimeLimit]

(* The settings the engine of the worker computes with. *)
Settings(a) ==
    [difficulty |-> a.currentDifficulty,
     timeLimit |-> a.currentTimeLimit,
     debugMode |-> a.debugMode]

AIWorkerComputeResult ==
    /\ aiw.init = "ready"
    /\ aiw.inbox # <<>>
    /\ Head(aiw.inbox).type = "COMPUTE_AI_ACTION"
    /\ LET message == Head(aiw.inbox)
           a == SyncSettings(aiw, message)
       IN aiw' = [a EXCEPT !.inbox = Tail(aiw.inbox),
                           !.outbox = Append(aiw.outbox,
                               [type |-> "AI_ACTION_RESULT", id |-> message.id,
                                payload |-> ActionFor(message.id),
                                used |-> Settings(a)])]
    /\ UNCHANGED <<proxy, timers, clock, initPending, listenerOn, fbInits, px>>
    /\ UNCHANGED poolVars

(* A handleComputeAction that returns without a reply while the worker is  *)
(* not initialized, as the handlers of the SET messages do.                *)
AIWorkerComputeErrorSilent ==
    /\ aiw.init # "none"
    /\ aiw.inbox # <<>>
    /\ Head(aiw.inbox).type = "COMPUTE_AI_ACTION"
    /\ LET message == Head(aiw.inbox)
           a == IF aiw.init = "ready" THEN SyncSettings(aiw, message) ELSE aiw
       IN aiw' = [a EXCEPT !.inbox = Tail(aiw.inbox),
                           !.outbox = IF aiw.init = "ready"
                                      THEN Append(aiw.outbox,
                                             [type |-> "AI_ERROR", id |-> message.id,
                                              payload |-> ErrorFor(message.id)])
                                      ELSE aiw.outbox]
    /\ UNCHANGED <<proxy, timers, clock, initPending, listenerOn, fbInits, px>>
    /\ UNCHANGED poolVars

(* handleComputeAction throws: the worker is not initialized, or the       *)
(* engine call or JSON.parse fails.                                        *)
AIWorkerComputeError ==
    /\ aiw.init # "none"
    /\ aiw.inbox # <<>>
    /\ Head(aiw.inbox).type = "COMPUTE_AI_ACTION"
    /\ LET message == Head(aiw.inbox)
           a == IF aiw.init = "ready" THEN SyncSettings(aiw, message) ELSE aiw
       IN aiw' = [a EXCEPT !.inbox = Tail(aiw.inbox),
                           !.outbox = Append(aiw.outbox,
                               [type |-> "AI_ERROR", id |-> message.id,
                                payload |-> ErrorFor(message.id)])]
    /\ UNCHANGED <<proxy, timers, clock, initPending, listenerOn, fbInits, px>>
    /\ UNCHANGED poolVars

(* handleSetDifficulty, handleSetTimeLimit, handleSetDebugMode: each       *)
(* returns at once while the worker is not initialized.                    *)
AIWorkerSet ==
    /\ aiw.init # "none"
    /\ aiw.inbox # <<>>
    /\ Head(aiw.inbox).type \in {"SET_DIFFICULTY", "SET_TIME_LIMIT", "SET_DEBUG_MODE"}
    /\ LET message == Head(aiw.inbox)
           a == [aiw EXCEPT !.inbox = Tail(aiw.inbox)]
       IN aiw' = IF aiw.init # "ready" THEN a
                 ELSE IF message.type = "SET_DIFFICULTY"
                 THEN [a EXCEPT !.currentDifficulty = message.value]
                 ELSE IF message.type = "SET_TIME_LIMIT"
                 THEN [a EXCEPT !.currentTimeLimit = message.value]
                 ELSE [a EXCEPT !.debugMode = message.value]
    /\ UNCHANGED <<proxy, timers, clock, initPending, listenerOn, fbInits, px>>
    /\ UNCHANGED poolVars

(***************************************************************************)
(* The AI worker on its own: a worker that has been created and sent INIT  *)
(* (the state initialize() leaves it in) and is then sent any messages, in *)
(* any order, also before it is initialized.  Nothing takes its replies    *)
(* away, so aiw.outbox is the list of everything it has posted.            *)
(***************************************************************************)
WorkerMessages ==
    [type : {"COMPUTE_AI_ACTION"}, id : RequestIds,
     difficulty : Difficulties, timeLimit : {DefaultTimeLimitMs}]
      \cup [type : {"SET_DIFFICULTY"}, value : Difficulties]
      \cup [type : {"SET_TIME_LIMIT"}, value : TimeLimits]
      \cup [type : {"SET_DEBUG_MODE"}, value : BOOLEAN]

(* worker.postMessage(message) by the owner of the worker. *)
AIWorkerReceive ==
    /\ aiw.init # "none"
    /\ Len(px.posted) < MaxRequests
    /\ \E message \in WorkerMessages :
          /\ aiw' = [aiw EXCEPT !.inbox = Append(aiw.inbox, message)]
          /\ px' = [px EXCEPT !.posted = Append(px.posted, message)]
    /\ UNCHANGED <<proxy, timers, clock, initPending, listenerOn, fbInits>>
    /\ UNCHANGED poolVars

AIWorkerNext ==
    \/ AIWorkerReceive
    \/ AIWorkerInitReady
    \/ AIWorkerInitError
    \/ AIWorkerComputeResult
    \/ AIWorkerComputeError
    \/ AIWorkerSet

AIWorkerInit ==
    /\ PoolInitWith(1)
    /\ \E x \in {Initialize([proxy |-> NewProxy(TRUE), timers |-> {},
                              clock |-> [t \in TimerKeys |-> 0],
                              initPending |-> {}, listenerOn |-> FALSE,
                              fbInits |-> 0, aiw |-> NoWorker, px |-> NewPx])} :
          /\ proxy = x.proxy
          /\ timers = x.timers
          /\ clock = x.clock
          /\ initPending = x.initPending
          /\ listenerOn = x.listenerOn
          /\ fbInits = x.fbInits
          /\ aiw = x.aiw
          /\ px = x.px

AIWorkerSpec == AIWorkerInit /\ [][AIWorkerNext]_vars

ProxyNext ==
    \/ ProxyInitialize
    \/ ProxyGetAIAction
    \/ ProxyTerminate
    \/ ProxyWorkerError
    \/ ProxyDeliver
    \/ \E n \in 1..(MaxCrashes + 1) : ProxyInitTimeout(n)
    \/ \E id \in RequestIds : ProxyRequestTimeout(id)
    \/ Tick
    \/ FallbackInitDone
    \/ FallbackInitFail
    \/ FallbackCompute
    \/ FallbackComputeThrows
    \/ AIWorkerInitReady
    \/ AIWorkerInitError
    \/ AIWorkerComputeResult
    \/ AIWorkerComputeError

ProxyInit == PoolInitWith(1) /\ (\E u \in BOOLEAN : ProxyInitWith(u))

ProxySpec == ProxyInit /\ [][ProxyNext]_vars

(* The proxy with its setters, in the runs in which every reply arrives    *)
(* before a timer fires and terminate() is not called.  The setters write  *)
(* only the settings, which no other operation of the proxy reads except   *)
(* to copy them into the COMPUTE_AI_ACTION message.                        *)
SettingsNext ==
    \/ ProxyInitialize
    \/ ProxyGetAIAction
    \/ ProxyWorkerError
    \/ ProxyDeliver
    \/ FallbackInitDone
    \/ FallbackInitFail
    \/ AIWorkerInitReady
    \/ AIWorkerInitError
    \/ AIWorkerComputeResult
    \/ AIWorkerComputeError
    \/ ProxySetDifficulty
    \/ ProxySetTimeLimit
    \/ ProxySetDebugMode
    \/ AIWorkerSet

SettingsSpec == ProxyInit /\ [][SettingsNext]_vars

(* Timers fire: the callback of an armed setTimeout is eventually run. *)
ProxyFairSpec ==
    /\ ProxyInit
    /\ [][ProxyNext]_vars
    /\ \A id \in RequestIds : WF_vars(ProxyRequestTimeout(id))
    /\ WF_vars(Tick)

(***************************************************************************)
(* GameController (game_controller.js) on top of the proxy.  The engine is *)
(* the WASM game engine behind WasmInterface: which player moves next,     *)
(* whether the game is over and whether gems must be discarded after an    *)
(* action is the engine's choice.                                          *)
(***************************************************************************)
Players == {"human", "ai"}

Other(player) == IF player = "human" THEN "ai" ELSE "human"

(* wasm.initGame(firstPlayerIndex). *)
InitGame(e, first) ==
    [current |-> first, over |-> FALSE, discard |-> FALSE, version |-> e.version + 1]

(* wasm.executeAction(action) returning true: the states the engine can be *)
(* in afterwards (the other player's turn, the game over, or the human     *)
(* player over the gem limit).                                             *)
ExecuteAction(e) ==
    {[e EXCEPT !.current = Other(e.current), !.version = e.version + 1],
     [e EXCEPT !.over = TRUE, !.version = e.version + 1]}
      \cup (IF e.current = "human"
            THEN {[e EXCEPT !.discard = TRUE, !.version = e.version + 1]}
            ELSE {})

(* wasm.discardGem(playerId, color) returning true. *)
DiscardGem(e) ==
    {[e EXCEPT !.version = e.version + 1],
     [e EXCEPT !.discard = FALSE, !.current = Other(e.current),
               !.version = e.version + 1],
     [e EXCEPT !.discard = FALSE, !.over = TRUE, !.version = e.version + 1]}

(* The test of the while loop of checkAITurn. *)
AITurn(e) == e.current = "ai" /\ ~e.over

NewLoop == [pc |-> "delay", id |-> <<>>, rejected |-> FALSE, version |-> 0]

Without(q, i) == [j \in 1..(Len(q) - 1) |-> IF j < i THEN q[j] ELSE q[j + 1]]

(* checkAITurn() called from a handler: up to the first await. *)
CheckAITurn(g) ==
    IF AITurn(g.engine) THEN [g EXCEPT !.loops = Append(g.loops, NewLoop)] ELSE g

(* endGame(): the game-over modal is shown. *)
EndGame(g) == [g EXCEPT !.gameOverModal = TRUE]

(* executeAITurn has returned in loop i: the while test of checkAITurn,    *)
(* and the next executeAITurn up to its first await.                       *)
NextTurn(g, i) ==
    IF AITurn(g.engine)
    THEN [g EXCEPT !.loops[i].pc = "delay", !.loops[i].id = <<>>]
    ELSE [g EXCEPT !.loops = Without(g.loops, i)]

(* The catch block of executeAITurn in loop i: the alert and the setup     *)
(* modal; the function then returns to the loop.                           *)
CatchAIError(g, i) ==
    NextTurn([g EXCEPT !.setupModal = TRUE,
                       !.loops[i].rejected = TRUE,
                       !.loops[i].version = g.engine.version], i)

poolOnly == <<pool, initState, inbox, wprog, outbox, alive, promise, hist,
              arenaWrapper, arena>>

(* A request of a loop has been settled and the loop has not yet gone on:  *)
(* its continuation runs before the event loop takes the next event.       *)
Settled(l) == l.pc = "await" /\ px.req[l.id].outcome # "pending"

ResumePending == \E i \in 1..Len(gameController.loops) : Settled(gameController.loops[i])

(* init(): aiProxy.initialize() has returned; ui.init and the setup modal. *)
GameInitDone ==
    /\ ~ResumePending
    /\ ~gameController.started
    /\ px.inits[1] = "returned"
    /\ gameController' = [gameController EXCEPT !.started = TRUE, !.setupModal = TRUE]
    /\ UNCHANGED poolOnly
    /\ UNCHANGED proxyVars

(* The Start Game button of the setup modal: startNewGame, with the time   *)
(* limit and the difficulty the dialog offers and the debug box unchecked. *)
GameStartNewGame ==
    /\ ~ResumePending
    /\ gameController.started
    /\ gameController.setupModal
    /\ gameController.starts < MaxStarts
    /\ gameController.engine.version < MaxMoves
    /\ Len(gameController.loops) < MaxLoops
    /\ \E first \in Players :
          /\ ProxyInstall(SetDebugMode(
                              SetTimeLimit(
                                 SetDifficulty(ProxyCurrent, ProxyDefaultDifficulty),
                                 DefaultTimeLimitMs),
                              FALSE))
          /\ gameController' = CheckAITurn([gameController EXCEPT
                                    !.setupModal = FALSE,
                                    !.engine = InitGame(gameController.engine, first),
                                    !.starts = gameController.starts + 1])
    /\ UNCHANGED poolOnly

(* The Play Again button of the game-over modal. *)
GamePlayAgain ==
    /\ ~ResumePending
    /\ gameController.gameOverModal
    /\ gameController' = [gameController EXCEPT !.gameOverModal = FALSE, !.setupModal = TRUE]
    /\ UNCHANGED poolOnly
    /\ UNCHANGED proxyVars

(* executePlayerAction with an action the engine accepts, on the human     *)
(* player's turn.                                                          *)
GameExecutePlayerAction ==
    /\ ~ResumePending
    /\ gameController.started /\ ~gameController.setupModal /\ ~gameController.gameOverModal
    /\ gameController.engine.current = "human" /\ ~gameController.engine.over /\ ~gameController.engine.discard
    /\ gameController.engine.version < MaxMoves
    /\ Len(gameController.loops) < MaxLoops
    /\ \E e \in ExecuteAction(gameController.engine) :
          LET g == [gameController EXCEPT !.engine = e]
          IN gameController' = IF e.over THEN EndGame(g) ELSE CheckAITurn(g)
    /\ UNCHANGED poolOnly
    /\ UNCHANGED proxyVars

(* onDiscardGem with a gem the engine accepts. *)
GameDiscardGem ==
    /\ ~ResumePending
    /\ gameController.started /\ ~gameController.setupModal /\ ~gameController.gameOverModal
    /\ gameController.engine.discard /\ ~gameController.engine.over
    /\ gameController.engine.version < MaxMoves
    /\ Len(gameController.loops) < MaxLoops
    /\ \E e \in DiscardGem(gameController.engine) :
          LET g == [gameController EXCEPT !.engine = e]
          IN gameController' = IF e.discard THEN g
                     ELSE IF e.over THEN EndGame(g) ELSE CheckAITurn(g)
    /\ UNCHANGED poolOnly
    /\ UNCHANGED proxyVars

(* executeAITurn of loop i after its delay: getAIAction.  A call the proxy *)
(* refuses (not initialized) is a rejected promise and the catch block     *)
(* runs at once.                                                           *)
GameLoopRequest(i) ==
    /\ ~ResumePending
    /\ i <= Len(gameController.loops)
    /\ gameController.loops[i].pc = "delay"
    /\ proxy.useWorker
    /\ px.calls < MaxRequests
    /\ LET x == GetAIAction(ProxyCurrent)
           g == [gameController EXCEPT !.reissued =
                    gameController.reissued \/ (/\ gameController.loops[i].rejected
                                      /\ gameController.loops[i].version = gameController.engine.version)]
       IN /\ ProxyInstall(x)
          /\ gameController' = IF x.px.lastCall = "refused"
                     THEN CatchAIError(g, i)
                     ELSE [g EXCEPT !.loops[i].pc = "await",
                                    !.loops[i].id = RequestId(proxy.requestIdCounter)]
    /\ UNCHANGED poolOnly

(* The continuation of a loop whose request was settled: the animation of  *)
(* the action, or the catch block.  The loops go on in the order of their  *)
(* requests.                                                               *)
GameLoopResume ==
    /\ ResumePending
    /\ LET i == CHOOSE k \in 1..Len(gameController.loops) :
                    /\ Settled(gameController.loops[k])
                    /\ \A j \in 1..Len(gameController.loops) :
                          Settled(gameController.loops[j]) => gameController.loops[k].id[2] <= gameController.loops[j].id[2]
       IN gameController' = IF px.req[gameController.loops[i].id].outcome = "resolved"
                  THEN [gameController EXCEPT !.loops[i].pc = "animate"]
                  ELSE CatchAIError(gameController, i)
    /\ UNCHANGED poolOnly
    /\ UNCHANGED proxyVars

(* executeAITurn of loop i after the animation: wasm.executeAction (its    *)
(* result is not looked at: the engine may refuse the action and stay as   *)
(* it is), updateState, endGame if the game is over, and back to the loop. *)
GameLoopExecute(i) ==
    /\ ~ResumePending
    /\ i <= Len(gameController.loops)
    /\ gameController.loops[i].pc = "animate"
    /\ gameController.engine.version < MaxMoves
    /\ \E e \in ExecuteAction(gameController.engine) \cup {gameController.engine} :
          LET g == [gameController EXCEPT !.engine = e, !.loops[i].rejected = FALSE]
          IN gameController' = NextTurn(IF e.over THEN EndGame(g) ELSE g, i)
    /\ UNCHANGED poolOnly
    /\ UNCHANGED proxyVars

(* The controller, its proxy and a worker that loads: init() calls         *)
(* initialize(); the worker answers READY well before the init timer       *)
(* (time passes only while no initialization is pending), then computes,   *)
(* throws, crashes or takes longer than the request timeout.               *)
GameNext ==
    \/ GameInitDone
    \/ GameStartNewGame
    \/ GamePlayAgain
    \/ GameExecutePlayerAction
    \/ GameDiscardGem
    \/ \E i \in 1..MaxLoops : GameLoopRequest(i)
    \/ GameLoopResume
    \/ \E i \in 1..MaxLoops : GameLoopExecute(i)
    \/ (~ResumePending /\ ProxyInitialize)
    \/ (~ResumePending /\ ProxyDeliver)
    \/ (~ResumePending /\ ProxyWorkerError)
    \/ (~ResumePending /\ AIWorkerInitReady)
    \/ (~ResumePending /\ AIWorkerComputeResult)
    \/ (~ResumePending /\ AIWorkerComputeError)
    \/ (~ResumePending /\ AIWorkerSet)
    \/ (~ResumePending /\ initPending = {} /\ Tick)
    \/ \E id \in RequestIds : (~ResumePending /\ ProxyRequestTimeout(id))

GameSpec == (PoolInitWith(1) /\ ProxyInitWith(TRUE)) /\ [][GameNext]_vars

(***************************************************************************)
(* Properties of AIWorkerProxy.                                            *)
(***************************************************************************)
Issued(id) == px.req[id].outcome # "none"

(* C8: the promise of every request that getAIAction sent to a worker is   *)
(* settled exactly once: resolve or reject is called on it at most once in *)
(* every state, and eventually once (by a result, an error reply, the      *)
(* timer, a worker crash or after terminate()).                            *)
C8_SettledExactlyOnce ==
    /\ [](\A id \in RequestIds : px.req[id].calls <= 1)
    /\ \A id \in RequestIds : Issued(id) ~> (px.req[id].calls = 1)

(* C8 witness: three requests were settled once each, one by a result, one *)
(* by a worker crash and one by its timer after terminate().               *)
C8_Witness ==
    /\ px.terminates = 1
    /\ \E a, b, c \in RequestIds :
          /\ px.req[a].outcome = "resolved" /\ px.req[a].calls = 1
          /\ px.req[b].outcome = "crashed" /\ px.req[b].calls = 1
          /\ px.req[c].outcome = "timeout" /\ px.req[c].calls = 1

(* C9: the request ids getAIAction generates are pairwise distinct over    *)
(* the life of the proxy, restarts included, and no id is generated while  *)
(* a request with that id is pending.                                      *)
C9_RequestIdsDistinct ==
    /\ \A i, j \in 1..Len(px.issued) : i # j => px.issued[i] # px.issued[j]
    /\ ~px.clobbered

(* C9 witness: ids were generated before and after a restart of the worker *)
(* and two requests are pending at once.                                   *)
C9_Witness ==
    /\ Len(px.issued) >= 3
    /\ Cardinality(proxy.pendingRequests) >= 2
    /\ \E a, b \in RequestIds :
          /\ Issued(a) /\ Issued(b)
          /\ px.req[a].epoch < px.req[b].epoch

(* C10: the handler of a worker error event rejects every request pending  *)
(* at that moment with the worker-crashed error and leaves none pending,   *)
(* and every request pending later was accepted after that crash.          *)
C10_CrashRejectsAllPending ==
    /\ [][px'.crashes = px.crashes + 1 =>
            /\ proxy'.pendingRequests = {}
            /\ \A id \in proxy.pendingRequests :
                  /\ px'.req[id].outcome = "crashed"
                  /\ px'.req[id].calls = 1]_vars
    /\ [](\A id \in proxy.pendingRequests : px.req[id].epoch = px.crashes)

(* C10 witness: two requests were rejected by a crash and a request        *)
(* accepted after the restart is pending.                                  *)
C10_Witness ==
    /\ px.crashes >= 1
    /\ \E a, b, c \in RequestIds :
          /\ a # b
          /\ px.req[a].outcome = "crashed"
          /\ px.req[b].outcome = "crashed"
          /\ px.req[a].epoch = px.req[b].epoch
          /\ c \in proxy.pendingRequests
          /\ px.req[c].epoch > px.req[a].epoch

(* The ids of the replies the worker has posted and the proxy has not yet  *)
(* handled.                                                                *)
ReplyIds == {aiw.outbox[i].id : i \in 1..Len(aiw.outbox)}

(* The ids of the requests the worker has received and not yet computed. *)
QueuedIds ==
    {m.id : m \in {q \in Range(aiw.inbox) : q.type = "COMPUTE_AI_ACTION"}}

(* C11: a request is rejected with the timeout error only by its own timer *)
(* and only when RequestTimeoutMs have passed since getAIAction set it;    *)
(* the request was unsettled until then, the rejection removes its id from *)
(* pendingRequests, and the id is never in pendingRequests afterwards.     *)
C11_TimeoutRejectsAtDeadline ==
    /\ [][\A id \in RequestIds :
            (px'.req[id].outcome = "timeout" /\ px.req[id].outcome # "timeout")
               => /\ px.req[id].outcome = "pending"
                  /\ id \in timers
                  /\ clock[id] >= RequestTimeoutMs
                  /\ id \notin proxy'.pendingRequests
                  /\ id \notin timers']_vars
    /\ [](\A id \in RequestIds :
            px.req[id].outcome = "timeout" => id \notin proxy.pendingRequests)

(* C11 witness: a request the worker never answered (it is still in the    *)
(* worker's queue) was rejected by its timer; no crash, no terminate().    *)
C11_Witness ==
    /\ px.crashes = 0 /\ px.terminates = 0
    /\ \E id \in RequestIds :
          /\ px.req[id].outcome = "timeout" /\ px.req[id].calls = 1
          /\ id \in QueuedIds
          /\ id \notin proxy.pendingRequests

(* C12: handling a reply (AI_ACTION_RESULT or AI_ERROR) whose id is not in *)
(* pendingRequests settles no promise and changes nothing of the proxy:    *)
(* the fields, the timers and the init promises stay as they are.          *)
C12_UnknownReplyDiscarded ==
    [][(/\ aiw.outbox # <<>>
        /\ Head(aiw.outbox).type \in {"AI_ACTION_RESULT", "AI_ERROR"}
        /\ Head(aiw.outbox).id \notin proxy.pendingRequests
        /\ aiw' = [aiw EXCEPT !.outbox = Tail(aiw.outbox)])
          => /\ proxy' = proxy
             /\ px' = px
             /\ timers' = timers
             /\ clock' = clock
             /\ initPending' = initPending
             /\ listenerOn' = listenerOn]_vars

(* C12 witness: a request timed out and the reply the worker computed for  *)
(* it afterwards has been handled: the request is still settled once, as   *)
(* timed out, and another request is pending.                              *)
C12_Witness ==
    /\ px.crashes = 0 /\ px.terminates = 0 /\ proxy.worker # 0
    /\ \E id \in RequestIds :
          /\ px.req[id].outcome = "timeout" /\ px.req[id].calls = 1
          /\ id \notin QueuedIds
          /\ id \notin ReplyIds
    /\ proxy.pendingRequests # {}

(* C13: terminate() rejects every request pending at that moment with the  *)
(* Terminated error.                                                       *)
C13_TerminateRejectsPending ==
    [][px'.terminates = px.terminates + 1
         => \A id \in proxy.pendingRequests :
               /\ px'.req[id].outcome = "terminated"
               /\ px'.req[id].calls = 1]_vars

(* C14: once the re-initialization after a worker crash has failed (the    *)
(* proxy has given up the worker path and no fallback initialization is    *)
(* under way), every getAIAction request is served by the in-process       *)
(* engine: it is neither sent to a worker nor refused as not initialized.  *)
C14_FallbackAfterFailedRestart ==
    [][(/\ px'.calls = px.calls + 1
        /\ px.crashes >= 1
        /\ ~proxy.useWorker
        /\ fbInits = 0)
          => /\ px'.lastCall = "fallback"
             /\ proxy.fallbackWasm]_vars

C16_RepliesCorrelatedById ==
    /\ [][(/\ aiw.outbox # <<>>
            /\ Head(aiw.outbox).type \in {"AI_ACTION_RESULT", "AI_ERROR"}
            /\ Head(aiw.outbox).id \in proxy.pendingRequests
            /\ aiw' = [aiw EXCEPT !.outbox = Tail(aiw.outbox)])
              => LET message == Head(aiw.outbox)
                     X == message.id
                 IN /\ px'.req[X].outcome =
                          (IF message.type = "AI_ACTION_RESULT"
                           THEN "resolved" ELSE "error")
                    /\ px'.req[X].calls = 1
                    /\ px'.req[X].value = message.payload
                    /\ proxy'.pendingRequests = proxy.pendingRequests \ {X}
                    /\ timers' = timers \ {X}
                    /\ \A id \in RequestIds \ {X} :
                          /\ px'.req[id] = px.req[id]
                          /\ clock'[id] = clock[id]]_vars
    /\ [](\A id \in RequestIds :
            /\ px.req[id].outcome = "resolved" => px.req[id].value = ActionFor(id)
            /\ px.req[id].outcome = "error" => px.req[id].value = ErrorFor(id))

(* C16 witness: replies were handled while another request was pending:    *)
(* one request is resolved, one is rejected with its error, and a third    *)
(* is still pending with its timer.                                        *)
C16_Witness ==
    /\ px.overlapped
    /\ \E a, b, c \in RequestIds :
          /\ px.req[a].outcome = "resolved"
          /\ px.req[b].outcome = "error"
          /\ c \in proxy.pendingRequests /\ c \in timers

(* C17: a setter only stores and posts its value (it creates nothing to    *)
(* wait for), and every request is computed with the settings of the most  *)
(* recent setter calls made before getAIAction issued it: the difficulty,  *)
(* the time limit and the debug mode the worker used for a result are the  *)
(* ones the proxy held when the request was issued.                        *)
C17_LatestSettingInEffect ==
    \A i \in 1..Len(aiw.outbox) :
        aiw.outbox[i].type = "AI_ACTION_RESULT"
           => aiw.outbox[i].used = px.req[aiw.outbox[i].id].want

(* C18: in fallback mode no request stays unsettled: when the engine call  *)
(* or the parsing of its result fails in the callback of                   *)
(* getAIActionFallback, the promise of the request is rejected.            *)
C18_FallbackAlwaysSettles ==
    px.fbHung = 0

(* C19: ArenaWorkerPool.initialize has succeeded only when all workerCount *)
(* workers have reported INIT_COMPLETE and are in the pool; it fails at    *)
(* the first worker that reports INIT_ERROR, raises an error event or      *)
(* times out, with that worker's error, creates no further worker, and its *)
(* outcome is final.                                                       *)
C19_InitAllOrFirstError ==
    /\ [](initState = "ready" =>
             /\ Len(pool.workers) = pool.workerCount
             /\ hist.initError = <<>>)
    /\ [](initState = "failed" =>
             /\ Len(pool.workers) < pool.workerCount
             /\ hist.initError # <<>>
             /\ hist.initError[1] = Len(pool.workers))
    /\ [][initState # "running" =>
             /\ initState' = initState
             /\ pool'.workers = pool.workers
             /\ hist'.initError = hist.initError]_vars

(* C19 witness: the first worker reported INIT_COMPLETE, the second timed  *)
(* out, and initialize failed with that timeout.                           *)
C19_Witness ==
    /\ initState = "failed"
    /\ pool.workerCount = MaxWorkers
    /\ Len(pool.workers) = MaxWorkers - 1
    /\ hist.initError = <<MaxWorkers - 1, "timeout">>

(* C20: no submission is executed on a pool that holds fewer than          *)
(* workerCount initialized workers.                                        *)
C20_NoSubmissionOnPartialPool ==
    hist.sub >= 1 => Len(pool.workers) = pool.workerCount

(* C21: terminate() stops every worker of the pool and leaves workers,     *)
(* availableWorkers and busyWorkers empty, and it does not settle the      *)
(* runTasks promise; a promise that is pending when terminate() is called  *)
(* stays pending in every later step.                                      *)
C21_TerminateAbandons ==
    /\ [][hist'.terminates = hist.terminates + 1 =>
            /\ pool'.workers = <<>>
            /\ pool'.availableWorkers = <<>>
            /\ pool'.busyWorkers = {}
            /\ \A w \in Range(pool.workers) : ~alive'[w]
            /\ promise' = promise]_vars
    /\ [][(hist.terminates >= 1 /\ hist.abandoned) =>
            (promise.state = "pending" /\ promise' = promise)]_vars

(* C21 witness: terminate() was called during a submission of MaxTasks     *)
(* tasks of which one had completed and another was running; the promise   *)
(* is pending and the pool is empty.                                       *)
C21_Witness ==
    /\ hist.terminates = 1 /\ hist.abandoned
    /\ promise.state = "pending"
    /\ pool.totalTasks = MaxTasks
    /\ pool.completedTasks = MaxTasks - 1
    /\ pool.taskQueue = <<>>
    /\ pool.workers = <<>>

C23_NoIdleWorkerStarved ==
    (promise.state = "pending" /\ pool.completedTasks < pool.totalTasks)
        => ~(pool.taskQueue # <<>> /\ pool.availableWorkers # <<>>)

(* The COMPUTE_AI_ACTION messages of a sequence, and the replies to them. *)
IsCompute(message) == message.type = "COMPUTE_AI_ACTION"

IsReply(message) == message.type \in {"AI_ACTION_RESULT", "AI_ERROR"}

(* C24: the AI worker posts exactly one reply for every COMPUTE_AI_ACTION  *)
(* message it has handled, in the order of the messages and with the id of *)
(* the message: AI_ACTION_RESULT with the action or AI_ERROR with the      *)
(* error, and always AI_ERROR while the worker is not initialized.         *)
C24_OneReplyPerCompute ==
    /\ [](LET sent == SelectSeq(px.posted, IsCompute)
              queued == SelectSeq(aiw.inbox, IsCompute)
              replies == SelectSeq(aiw.outbox, IsReply)
          IN /\ Len(replies) + Len(queued) = Len(sent)
             /\ \A i \in 1..Len(replies) :
                   /\ replies[i].id = sent[i].id
                   /\ replies[i].payload =
                         (IF replies[i].type = "AI_ACTION_RESULT"
                          THEN ActionFor(sent[i].id) ELSE ErrorFor(sent[i].id)))
    /\ [][(/\ aiw.inbox # <<>>
            /\ IsCompute(Head(aiw.inbox))
            /\ aiw'.inbox = Tail(aiw.inbox))
              => /\ Len(aiw'.outbox) = Len(aiw.outbox) + 1
                 /\ IsReply(aiw'.outbox[Len(aiw'.outbox)])
                 /\ aiw'.outbox[Len(aiw'.outbox)].id = Head(aiw.inbox).id
                 /\ aiw.init # "ready"
                       => aiw'.outbox[Len(aiw'.outbox)].type = "AI_ERROR"]_vars

(* C24 witness: the worker was sent three requests, two of them with the   *)
(* same id; it answered the first with AI_ERROR before it was initialized, *)
(* and the others with a result and with AI_ERROR afterwards.              *)
C24_Witness ==
    /\ aiw.init = "ready" /\ aiw.inbox = <<>>
    /\ Len(px.posted) = 3
    /\ \A i \in 1..3 : IsCompute(px.posted[i])
    /\ px.posted[1].id = px.posted[3].id
    /\ Len(aiw.outbox) = 4
    /\ aiw.outbox[1].type = "AI_ERROR"
    /\ aiw.outbox[2].type = "READY"
    /\ aiw.outbox[3].type = "AI_ACTION_RESULT"
    /\ aiw.outbox[4].type = "AI_ERROR"

(* The messages of a worker about matchups. *)
IsMatchupMessage(message) == message.type \notin InitReplies

IsTerminal(message) == message.type \in {"MATCHUP_COMPLETE", "MATCHUP_ERROR"}

(* The messages of log answer the RUN_MATCHUP messages tasks in order: for *)
(* each task at most gamesPerMatchup GAME_COMPLETE messages and then one   *)
(* terminal message, all with the task's matchupId; MATCHUP_COMPLETE only  *)
(* after exactly gamesPerMatchup GAME_COMPLETE messages.  games is the     *)
(* number of GAME_COMPLETE messages seen for the first task.               *)
RECURSIVE WellAnswered(_, _, _)
WellAnswered(log, tasks, games) ==
    IF log = <<>> THEN TRUE
    ELSE IF tasks = <<>> THEN FALSE
    ELSE LET message == Head(log)
             task == Head(tasks)
         IN /\ message.matchupId = task.matchupId
            /\ IF message.type = "GAME_COMPLETE"
               THEN /\ games < task.gamesPerMatchup
                    /\ WellAnswered(Tail(log), tasks, games + 1)
               ELSE IF message.type = "MATCHUP_COMPLETE"
               THEN /\ games = task.gamesPerMatchup
                    /\ WellAnswered(Tail(log), Tail(tasks), 0)
               ELSE /\ message.type = "MATCHUP_ERROR"
                    /\ WellAnswered(Tail(log), Tail(tasks), 0)

(* C25: the arena worker posts exactly one terminal message for every      *)
(* RUN_MATCHUP it has handled, with the matchupId of that message, after   *)
(* the GAME_COMPLETE messages of that matchup; MATCHUP_COMPLETE follows     *)
(* exactly gamesPerMatchup GAME_COMPLETE messages, and a RUN_MATCHUP        *)
(* handled while the worker is not initialized is answered with            *)
(* MATCHUP_ERROR alone.                                                    *)
C25_OneTerminalPerMatchup ==
    /\ [](LET log == SelectSeq(outbox[ArenaWorker], IsMatchupMessage)
          IN /\ WellAnswered(log, hist.received, 0)
             /\ Len(SelectSeq(log, IsTerminal)) + Len(inbox[ArenaWorker])
                   = Len(hist.received))
    /\ [][(/\ inbox[ArenaWorker] # <<>>
            /\ inbox'[ArenaWorker] = Tail(inbox[ArenaWorker])
            /\ ~arenaWrapper[ArenaWorker])
              => outbox'[ArenaWorker] =
                    Append(outbox[ArenaWorker],
                           Msg("MATCHUP_ERROR", Head(inbox[ArenaWorker])))]_vars

(* C25 witness: the worker answered a RUN_MATCHUP with MATCHUP_ERROR before *)
(* it was initialized and then a matchup of MaxMatches matches with        *)
(* MaxMatches GAME_COMPLETE messages and MATCHUP_COMPLETE.                 *)
C25_Witness ==
    /\ Len(hist.received) = 2
    /\ hist.received[2].gamesPerMatchup = MaxMatches
    /\ inbox[ArenaWorker] = <<>>
    /\ Len(outbox[ArenaWorker]) = MaxMatches + 3
    /\ outbox[ArenaWorker][1].type = "MATCHUP_ERROR"
    /\ outbox[ArenaWorker][2].type = "INIT_COMPLETE"
    /\ outbox[ArenaWorker][MaxMatches + 3].type = "MATCHUP_COMPLETE"

(* C27: in the matches of one matchup task the first mover alternates:     *)
(* the match with an even index is opened by bot1 (competitor i) and the   *)
(* match with an odd index by bot2 (competitor j).                         *)
C27_FirstMoverAlternates ==
    \A i \in 1..Len(outbox[ArenaWorker]) :
        outbox[ArenaWorker][i].type = "GAME_COMPLETE"
           => outbox[ArenaWorker][i].gameResult.first =
                 (IF outbox[ArenaWorker][i].gameNum % 2 = 0 THEN "bot1" ELSE "bot2")

(* n * (n - 1) / 2 *)
Pairs(n) == (n * (n - 1)) \div 2

(* C26: for C bots runTournamentParallel creates exactly C*(C-1)/2 tasks,  *)
(* one for each pair (i, j) with i < j: no pair twice, no bot paired with  *)
(* itself, and pairwise distinct matchupIds.                               *)
C26_RoundRobinTasks ==
    arena.phase # "idle" =>
        LET tasks == arena.tasks
        IN /\ Len(tasks) = Pairs(arena.bots)
           /\ \A a \in 1..Len(tasks) :
                 /\ tasks[a].bot1Index \in BotIdx(arena.bots)
                 /\ tasks[a].bot2Index \in BotIdx(arena.bots)
                 /\ tasks[a].bot1Index < tasks[a].bot2Index
                 /\ tasks[a].gamesPerMatchup = arena.gamesPerMatchup
           /\ \A i, j \in BotIdx(arena.bots) :
                 i < j => \E a \in 1..Len(tasks) :
                            tasks[a].bot1Index = i /\ tasks[a].bot2Index = j
           /\ \A a, b \in 1..Len(tasks) :
                 a # b => /\ {tasks[a].bot1Index, tasks[a].bot2Index}
                               # {tasks[b].bot1Index, tasks[b].bot2Index}
                          /\ tasks[a].matchupId # tasks[b].matchupId

(* C26 witness: the tasks of a tournament of MaxBots bots. *)
C26_Witness ==
    /\ arena.phase = "running"
    /\ arena.bots = MaxBots
    /\ Len(arena.tasks) = Pairs(MaxBots)
    /\ arena.tasks[Pairs(MaxBots)].matchupId
          = MatchupId(MaxBots - 2, MaxBots - 1)

(* The accumulators of an aggregated result. *)
Accumulators(results) ==
    [wins |-> results.acc.wins,
     losses |-> results.acc.losses,
     gamesPlayed |-> results.acc.gamesPlayed,
     totalPoints |-> results.acc.totalPoints,
     totalWinTurns |-> results.acc.totalWinTurns]

(* C28: after aggregateResults, wins[i] + losses[i] = gamesPlayed[i] for   *)
(* every bot i, whatever the winner values of the results are.             *)
C28_WinsPlusLosses ==
    arena.phase = "done" =>
        \A i \in BotIdx(arena.bots) :
            arena.results.acc.wins[i] + arena.results.acc.losses[i]
                = arena.results.acc.gamesPlayed[i]

(* C28 witness: a list with a match whose winner is neither 0 nor 1 has    *)
(* been aggregated, and a bot has both a win and a loss.                   *)
C28_Witness ==
    /\ arena.phase = "done"
    /\ \E m \in 1..Len(arena.matchupResults) :
          \E g \in 1..Len(arena.matchupResults[m].results) :
              arena.matchupResults[m].results[g].winner = -1
    /\ \E i \in BotIdx(arena.bots) :
          arena.results.acc.wins[i] >= 1 /\ arena.results.acc.losses[i] >= 1

(* The orders of a sequence, and the orders of a list of matchup results:  *)
(* the matchups in any order, the games of each matchup in any order.      *)
Orders(q) == {[i \in 1..Len(q) |-> q[f[i]]] : f \in Permutations(1..Len(q))}

RECURSIVE GameOrders(_)
GameOrders(matchupResults) ==
    IF matchupResults = <<>> THEN {<<>>}
    ELSE {<<[Head(matchupResults) EXCEPT !.results = games]>> \o rest :
             games \in Orders(Head(matchupResults).results),
             rest \in GameOrders(Tail(matchupResults))}

Reorderings(matchupResults) ==
    UNION {Orders(q) : q \in GameOrders(matchupResults)}

(* C29: aggregateResults gives the same accumulators (wins, losses,        *)
(* gamesPlayed, totalPoints, totalWinTurns) for every order of the same    *)
(* matchup results and of the games inside them.                           *)
C29_OrderIndependent ==
    arena.phase = "done" =>
        \A q \in Reorderings(arena.matchupResults) :
            Accumulators(AggregateResults(arena.bots, q))
                = Accumulators(arena.results)

(* C29 witness: two matchups of two games each have been aggregated, in    *)
(* which one bot won two games of different length.                        *)
C29_Witness ==
    /\ arena.phase = "done"
    /\ Len(arena.matchupResults) = 2
    /\ \A m \in 1..2 : Len(arena.matchupResults[m].results) = 2
    /\ arena.matchupResults[1] # arena.matchupResults[2]
    /\ \E i \in BotIdx(arena.bots) :
          /\ arena.results.acc.wins[i] = 2
          /\ arena.results.acc.totalWinTurns[i] = 50

(* The sum of an accumulator over the bots 0..n-1. *)
RECURSIVE SumOver(_, _)
SumOver(f, n) == IF n = 0 THEN 0 ELSE f[n - 1] + SumOver(f, n - 1)

(* C30: after a tournament of C bots with K matches per pair in which      *)
(* every task succeeded, the sum of gamesPlayed is 2 * K * C*(C-1)/2 and   *)
(* the sum of wins is K * C*(C-1)/2.                                       *)
C30_TournamentTotals ==
    arena.phase = "done" =>
        /\ SumOver(arena.results.acc.gamesPlayed, arena.bots)
              = 2 * arena.gamesPerMatchup * Pairs(arena.bots)
        /\ SumOver(arena.results.acc.wins, arena.bots)
              = arena.gamesPerMatchup * Pairs(arena.bots)

(* C30 witness: a tournament of MaxBots bots with MaxMatches matches per   *)
(* pair has been aggregated; its results arrived in another order than the *)
(* tasks were created, and one match had neither winner 0 nor 1.           *)
C30_Witness ==
    /\ arena.phase = "done"
    /\ arena.bots = MaxBots
    /\ arena.gamesPerMatchup = MaxMatches
    /\ Len(arena.results.acc.matches) = MaxMatches * Pairs(MaxBots)
    /\ arena.matchupResults[1].matchupId # arena.tasks[1].matchupId
    /\ \E g \in 1..Len(arena.results.acc.matches) :
          arena.results.acc.matches[g].winner = -1

(* C31: the win rate reported for bot i is wins[i] / (wins[i] + losses[i])  *)
(* (as a percentage with one decimal), and it is reported as N/A, not as a *)
(* number, when wins[i] + losses[i] is zero.                               *)
C31_WinRateUndefinedAtZero ==
    arena.stats # <<>> =>
        \A i \in BotIdx(arena.bots) :
            LET wins == arena.results.acc.wins[i]
                total == arena.results.acc.wins[i] + arena.results.acc.losses[i]
                rate == arena.stats[i].winRate
            IN  IF total = 0 THEN ~rate.isNumber
                ELSE /\ rate.isNumber
                     /\ 2 * (rate.tenths * total - 1000 * wins) <= total
                     /\ 2 * (1000 * wins - rate.tenths * total) <= total

(* C32: the RUN_MATCHUP messages posted during a submission are, in the    *)
(* order of posting, a prefix of the submitted task list, and no task is   *)
(* posted twice (to two workers or to the same worker).                    *)
C32_FifoDispatchOnce ==
    /\ Len(hist.dispatched) <= Len(hist.tasks)
    /\ \A i \in 1..Len(hist.dispatched) : hist.dispatched[i] = hist.tasks[i]
    /\ \A i, j \in 1..Len(hist.dispatched) :
          hist.dispatched[i] = hist.dispatched[j] => i = j

(* C32 witness: a pool of one worker has posted all MaxTasks tasks of a    *)
(* submission, the later ones from the queue after the worker's replies.   *)
C32_Witness ==
    /\ pool.workerCount = 1
    /\ Len(hist.tasks) = MaxTasks
    /\ hist.dispatched = hist.tasks
    /\ promise.state = "pending"

(* C34: after every handler of the pool, availableWorkers holds no worker   *)
(* index twice, availableWorkers and busyWorkers are disjoint, and every   *)
(* initialized worker index is in exactly one of the two.                  *)
C34_AvailableBusyPartition ==
    /\ \A i, j \in 1..Len(pool.availableWorkers) :
          pool.availableWorkers[i] = pool.availableWorkers[j] => i = j
    /\ Range(pool.availableWorkers) \cap pool.busyWorkers = {}
    /\ Range(pool.workers) = Range(pool.availableWorkers) \cup pool.busyWorkers

(* The step in which the promise of the current runTasks call is resolved. *)
Resolves ==
    /\ promise'.state = "resolved"
    /\ promise.state = "pending" \/ hist'.sub # hist.sub

(* The matchups of the entries of a result list. *)
ResultKeys(rs) == {<<rs[i].matchupId, rs[i].sub>> : i \in 1..Len(rs)}

(* C35: when the runTasks promise resolves and every submitted task ended   *)
(* with MATCHUP_COMPLETE, completedGames equals totalGames and every game  *)
(* has been reported to the progress callback.                             *)
C35_AllGamesCountedAtResolve ==
    [][(/\ Resolves
        /\ promise'.failures = 0
        /\ {TaskKey(t) : t \in Range(hist'.tasks)} \subseteq ResultKeys(promise'.value))
          => /\ pool'.completedGames = pool'.totalGames
             /\ hist'.progress.calls = pool'.totalGames
             /\ hist'.progress.completed = pool'.totalGames]_vars

(* C40: the result list of a runTasks call holds only entries of the tasks *)
(* of that call, and at the moment the promise resolves no worker is in    *)
(* busyWorkers or holds an unanswered RUN_MATCHUP.                         *)
C40_SubmissionsIsolated ==
    [][Resolves
          => /\ ResultKeys(promise'.value) \subseteq {TaskKey(t) : t \in Range(hist'.tasks)}
             /\ pool'.busyWorkers = {}
             /\ \A w \in WorkerIdx : inbox'[w] = <<>>]_vars

(* C36: a timeout timer is armed for a request id exactly when that id is  *)
(* in pendingRequests: whatever removes an entry also disarms its timer.   *)
C36_TimerIffPending ==
    \A id \in RequestIds : id \in timers <=> id \in proxy.pendingRequests

(* The number of COMPUTE_AI_ACTION messages a worker has not yet handled. *)
ComputeCount(messages) == Len(SelectSeq(messages, IsCompute))

(* C37: degradation is one-way: once useWorker is false it stays false,    *)
(* and from then on no COMPUTE_AI_ACTION message is posted to any worker.  *)
C37_DegradationOneWay ==
    [][~proxy.useWorker =>
          /\ ~proxy'.useWorker
          /\ px'.issued = px.issued
          /\ ComputeCount(aiw'.inbox) <= ComputeCount(aiw.inbox)]_vars

(* C37 witness: after a second crash during a restart the proxy has given  *)
(* up the worker path while a worker exists, and a getAIAction call made   *)
(* then went to the fallback.                                              *)
C37_Witness ==
    /\ ~proxy.useWorker
    /\ px.crashes = 2
    /\ proxy.worker # 0
    /\ proxy.isReady
    /\ px.lastCall = "fallback"

(* C38: after a worker crash and a successful restart, the first action    *)
(* the new worker computes uses the difficulty, time limit and debug mode  *)
(* most recently set on the proxy before the crash (no setter has been     *)
(* called since).                                                          *)
C38_SettingsSurviveRestart ==
    \A i \in 1..Len(aiw.outbox) :
        LET message == aiw.outbox[i]
        IN (/\ message.type = "AI_ACTION_RESULT"
            /\ px.crashes >= 1
            /\ px.crashSets = px.sets
            /\ px.req[message.id].epoch = px.crashes
            /\ \A id \in RequestIds \ {message.id} :
                  px.req[id].outcome = "none" \/ px.req[id].epoch # px.crashes)
              => message.used = [difficulty |-> proxy.difficulty,
                                 timeLimit |-> proxy.timeLimit,
                                 debugMode |-> proxy.debugMode]

(* C33: GameController has at most one getAIAction request outstanding on *)
(* its proxy at any time.                                                  *)
C33_OneOutstandingRequest ==
    Cardinality(proxy.pendingRequests) + px.fbPending <= 1

(* C39: checkAITurn terminates: after a rejected getAIAction request the   *)
(* loop stops; it does not call getAIAction again for the unchanged game   *)
(* state.                                                                  *)
C39_LoopStopsAfterReject ==
    ~gameController.reissued

====
